---- MODULE Spec2Model ----
(***************************************************************************)
(* kiot: the entity/registration core (src/entities/entity.cpp,            *)
(* switch.cpp, sensor.cpp) run against an MQTT client.                     *)
(*                                                                         *)
(* The model follows one entity, a Switch or a Sensor, from its            *)
(* construction on, and the client it publishes through.                   *)
(*                                                                         *)
(* All entity code runs on one event thread, so every public operation and *)
(* every signal handler is one atomic action.  The transport calls an      *)
(* action makes are recorded, in call order, in `calls`; the signals it    *)
(* emits in `emitted`; the handlers it ran in `ran`.                       *)
(***************************************************************************)
EXTENDS Naturals, Sequences, FiniteSets, TLC

VARIABLES
    localHostName,  \* QHostInfo::localHostName(), a sequence of characters
    mqttState,      \* QMqttClient::state()
    subs,           \* active subscriptions: topic -> owners of the connected lambdas
    ents,           \* the entities, in construction order
    lastOp,         \* the operation or event the last action was
    calls,          \* transport calls made by the last action, in order
    emitted,        \* Qt signals emitted by the last action, in order
    ran,            \* init() runs of the last action, in order
    lastDisc,       \* per entity: last discovery publish since its fields changed
    everDisc,       \* per entity: a discovery document was published at some time
    pendingAttrs,   \* per entity: attributes were set and dropped since the connection was lost
    usedTopics,     \* history, kept where .on: per entity, <<kind, topic>> of every call
                    \* since its id or haType changed
    missedState,    \* history, kept where usedTopics.on: per entity, setState was called
                    \* and published nothing since the last state publish
    flatpak,        \* FlatpakHelper: the environment, and the last call with its result
    inhibitor,      \* PowerInhibitor: its cookie and the D-Bus calls of its last handler
    docker          \* DockerSwitch: its listener's events, emitted, queued and handled

entityVars == <<localHostName, mqttState, subs, ents, lastOp, calls, emitted, ran,
                lastDisc, everDisc, pendingAttrs, usedTopics, missedState>>

vars == <<entityVars, flatpak, inhibitor, docker>>

-----------------------------------------------------------------------------
(* Bounds of the model *)

MaxHandlers == 2    \* lambdas connected to subscriptions that outlive a connection

(* Inputs *)

HostNames == { <<"D","e","s","k","t","o","p","1">> }
Ids       == {"inhibit", "connected"}
Names     == {"Inhibit"}
Icons     == {"", "mdi:docker"}
Payloads  == {"true", "false", "maybe"}
SensorStates == {"42"}

(* A QVariant is <<type name, value>>. *)
QStr(s)  == <<"QString", s>>
QBool(b) == <<"bool", b>>
QInt(n)  == <<"int", n>>
QMap(m)  == <<"QVariantMap", m>>
QDate(t) == <<"QDateTime", t>>      \* t = <<year, month, day, hour, minute, second>>
QList(l) == <<"QVariantList", l>>
QUser(n) == <<"UserType", n>>       \* a registered custom type, n its handle

EmptyMap == [k \in {} |-> QStr("")]

(* Attribute values of every kind convertForHomeAssistant tells apart. *)
MaxListLen == 2     \* longest QVariantList among the attribute values

Scalars == { QBool(TRUE), QInt(42), QStr("on") }

Variants ==
    { QBool(TRUE), QBool(FALSE), QInt(0), QInt(42), QStr("on"), QStr("true"),
      QDate(<<2025, 1, 2, 3, 4, 5>>), QDate(<<2025, 11, 30, 23, 59, 0>>),
      QMap([active |-> QBool(TRUE)]), QMap([level |-> QInt(42)]),
      QUser(1) }
    \cup { QList(l) : l \in UNION { [1..n -> Scalars] : n \in 0..MaxListLen } }

AttributeMaps ==
    { [active |-> v] : v \in Variants }
    \cup { [active |-> QBool(b), level |-> v] : b \in BOOLEAN, v \in {QInt(42), QBool(FALSE)} }

OverlayInputs == { <<"device", QMap([identifiers |-> QStr("custom")])>> }
(* Overlay entries on the keys sendRegistration() writes itself, and on one *)
(* it does not.                                                            *)
OverlayEntries ==
    OverlayInputs \cup
    { <<"name", QStr("custom")>>,
      <<"unique_id", QStr("custom")>>,
      <<"json_attributes_topic", QStr("custom")>>,
      <<"availability_topic", QStr("custom")>>,
      <<"icon", QStr("mdi:console")>>,
      <<"unit_of_measurement", QStr("%")>> }

AttrInputs    == { EmptyMap, [active |-> QBool(TRUE), level |-> QInt(42)] }

-----------------------------------------------------------------------------
(* Strings and JSON *)

LowerChar(c) ==
    CASE c = "D" -> "d"
      [] c = "E" -> "e"
      [] c = "S" -> "s"
      [] c = "K" -> "k"
      [] c = "T" -> "t"
      [] c = "O" -> "o"
      [] c = "P" -> "p"
      [] OTHER   -> c

ToLower(s) == [i \in 1..Len(s) |-> LowerChar(s[i])]

RECURSIVE Str(_)
Str(s) == IF s = <<>> THEN "" ELSE Head(s) \o Str(Tail(s))

(* QMap and QJsonObject iterate their keys in sorted order. *)
SortedKeys == << "active", "active_inhibitors", "app", "availability_topic",
                 "command_topic", "count", "created", "device",
                 "icon", "identifiers", "image", "image_encoding",
                 "json_attributes_topic", "level",
                 "name", "payload_available", "payload_not_available",
                 "payload_off", "payload_on", "ports", "reason", "running",
                 "size_bytes", "state_topic", "status", "timestamp", "topic",
                 "unique_id",
                 "unit_of_measurement" >>

Put(m, k, v) == [x \in DOMAIN m \cup {k} |-> IF x = k THEN v ELSE m[x]]

Quote(s) == "\"" \o s \o "\""

(* QDateTime::toString(Qt::ISODate) *)
Pad2(n) == IF n < 10 THEN "0" \o ToString(n) ELSE ToString(n)

IsoDate(t) ==
    ToString(t[1]) \o "-" \o Pad2(t[2]) \o "-" \o Pad2(t[3]) \o "T"
        \o Pad2(t[4]) \o ":" \o Pad2(t[5]) \o ":" \o Pad2(t[6])

RECURSIVE JsonValue(_), JsonMembers(_, _, _), JsonItems(_, _)
JsonItems(l, i) ==
    IF i > Len(l) THEN ""
    ELSE (IF i = 1 THEN "" ELSE ",") \o JsonValue(l[i]) \o JsonItems(l, i + 1)

JsonMembers(m, i, first) ==
    IF i > Len(SortedKeys) THEN ""
    ELSE IF SortedKeys[i] \in DOMAIN m
         THEN (IF first THEN "" ELSE ",")
              \o Quote(SortedKeys[i]) \o ":" \o JsonValue(m[SortedKeys[i]])
              \o JsonMembers(m, i + 1, FALSE)
         ELSE JsonMembers(m, i + 1, first)

JsonValue(v) ==
    CASE v[1] = "QString"     -> Quote(v[2])
      [] v[1] = "bool"        -> IF v[2] THEN "true" ELSE "false"
      [] v[1] = "int"         -> ToString(v[2])
      [] v[1] = "QVariantMap" -> "{" \o JsonMembers(v[2], 1, TRUE) \o "}"
      [] v[1] = "QJsonObject" -> "{" \o JsonMembers(v[2], 1, TRUE) \o "}"
      [] v[1] = "QVariantList" -> "[" \o JsonItems(v[2], 1) \o "]"
      [] v[1] = "QJsonArray"  -> "[" \o JsonItems(v[2], 1) \o "]"
      [] v[1] = "QDateTime"   -> Quote(IsoDate(v[2]) \o ".000")
      [] v[1] = "UserType"    -> "null"

ToJson(m) == "{" \o JsonMembers(m, 1, TRUE) \o "}"

-----------------------------------------------------------------------------
(* Transport calls and signals, as recorded *)

(* One call on HaControl::mqttClient().  `by` is the calling entity, `site` *)
(* the place of the call in the code and `doc` the JSON object the payload  *)
(* was serialised from (EmptyMap when the payload is not JSON).             *)
Publish(e, site, topic, payload, doc, qos, retain) ==
    [call |-> "publish", by |-> e, site |-> site, topic |-> topic,
     payload |-> payload, doc |-> doc, qos |-> qos, retain |-> retain]

Subscribe(e, topic) ==
    [call |-> "subscribe", by |-> e, site |-> "command", topic |-> topic,
     payload |-> "", doc |-> EmptyMap, qos |-> 0, retain |-> FALSE]

Signal(e, name, arg) == [sig |-> name, by |-> e, arg |-> arg]

NoDisc == [topic |-> "", payload |-> ""]

-----------------------------------------------------------------------------
(* Entity (src/entities/entity.cpp) *)

s_discoveryPrefix == "homeassistant"

Hostname == Str(ToLower(localHostName))

(* bug: the host name is left out of the topic *)
BaseTopicNoHost(this) == "/" \o this.m_id

BaseTopic(this) == Hostname \o "/" \o this.m_id

SetHaType(this, newHaType) == [this EXCEPT !.m_haType = newHaType]

SetDiscoveryConfig(this, key, value) ==
    [this EXCEPT !.m_haConfig = Put(this.m_haConfig, key, value)]

(* bug: a unique_id in the overlay is kept *)
BuildConfigKeepsUniqueId(overlay, this) ==
    LET c0 == Put(overlay, "name", QStr(this.m_name))
        c1 == IF this.m_id # "connected"
              THEN LET a == Put(Put(Put(c0,
                                "availability_topic", QStr(Hostname \o "/connected")),
                                "payload_available", QStr("on")),
                                "payload_not_available", QStr("off"))
                   IN  IF this.m_haIcon # ""
                       THEN Put(a, "icon", QStr(this.m_haIcon))
                       ELSE a
              ELSE c0
        c2 == Put(c1, "json_attributes_topic", QStr(BaseTopic(this) \o "/attributes"))
        c3 == IF "device" \in DOMAIN c2
              THEN c2
              ELSE Put(c2, "device",
                       QMap([identifiers |-> QStr("linux_ha_bridge_" \o Hostname)]))
    IN  IF "unique_id" \in DOMAIN c3
        THEN c3
        ELSE Put(c3, "unique_id",
                 QStr("linux_ha_control_" \o Hostname \o "_" \o this.m_id))

(* The QVariantMap sendRegistration() builds, starting from `overlay`. *)
BuildConfig(overlay, this) ==
    LET c0 == Put(overlay, "name", QStr(this.m_name))
        c1 == IF this.m_id # "connected"
              THEN LET a == Put(Put(Put(c0,
                                "availability_topic", QStr(Hostname \o "/connected")),
                                "payload_available", QStr("on")),
                                "payload_not_available", QStr("off"))
                   IN  IF this.m_haIcon # ""
                       THEN Put(a, "icon", QStr(this.m_haIcon))
                       ELSE a
              ELSE c0
        c2 == Put(c1, "json_attributes_topic", QStr(BaseTopic(this) \o "/attributes"))
        c3 == IF "device" \in DOMAIN c2
              THEN c2
              ELSE Put(c2, "device",
                       QMap([identifiers |-> QStr("linux_ha_bridge_" \o Hostname)]))
    IN  Put(c3, "unique_id", QStr("linux_ha_control_" \o Hostname \o "_" \o this.m_id))

(* bug: the document starts from the attributes instead of the overlay *)
DiscoveryConfigFromAttributes(this) == BuildConfig(this.m_attributes, this)

DiscoveryConfig(this) == BuildConfig(this.m_haConfig, this)

(* bug: the topic is built from the display name *)
DiscoveryTopicFromName(this) ==
    s_discoveryPrefix \o "/" \o this.m_haType \o "/" \o Hostname \o "/"
        \o this.m_name \o "/config"

DiscoveryTopic(this) ==
    s_discoveryPrefix \o "/" \o this.m_haType \o "/" \o Hostname \o "/"
        \o this.m_id \o "/config"

(* bug: the availability ping is sent for the reserved id too *)
SendRegistrationAlwaysPing(e, this) ==
    IF this.m_haType = ""
    THEN <<>>
    ELSE <<Publish(e, "discovery", DiscoveryTopic(this),
                   ToJson(DiscoveryConfig(this)), DiscoveryConfig(this), 0, TRUE),
           Publish(e, "availability", Hostname \o "/connected", "on",
                   EmptyMap, 0, FALSE)>>

(* bug: the availability ping is published retained *)
SendRegistrationRetainedPing(e, this) ==
    IF this.m_haType = ""
    THEN <<>>
    ELSE <<Publish(e, "discovery", DiscoveryTopic(this),
                   ToJson(DiscoveryConfig(this)), DiscoveryConfig(this), 0, TRUE)>>
         \o (IF this.m_id # "connected"
             THEN <<Publish(e, "availability", Hostname \o "/connected", "on",
                            EmptyMap, 0, TRUE)>>
             ELSE <<>>)

(* bug: an entity with no haType registers all the same *)
SendRegistrationUntyped(e, this) ==
    <<Publish(e, "discovery", DiscoveryTopic(this),
              ToJson(DiscoveryConfig(this)), DiscoveryConfig(this), 0, TRUE)>>
    \o (IF this.m_id # "connected"
        THEN <<Publish(e, "availability", Hostname \o "/connected", "on",
                       EmptyMap, 0, FALSE)>>
        ELSE <<>>)

(* Entity::sendRegistration: the transport calls it makes. *)
SendRegistration(e, this) ==
    IF this.m_haType = ""
    THEN <<>>
    ELSE <<Publish(e, "discovery", DiscoveryTopic(this),
                   ToJson(DiscoveryConfig(this)), DiscoveryConfig(this), 0, TRUE)>>
         \o (IF this.m_id # "connected"
             THEN <<Publish(e, "availability", Hostname \o "/connected", "on",
                            EmptyMap, 0, FALSE)>>
             ELSE <<>>)

(* bug: a boolean is passed through as it is *)
ConvertKeepsBool(value) ==
    CASE value[1] = "QDateTime"    -> QStr(IsoDate(value[2]))
      [] value[1] = "QVariantList" -> <<"QJsonArray", value[2]>>
      [] value[1] = "QVariantMap"  -> <<"QJsonObject", value[2]>>
      [] OTHER                     -> value

(* bug: a number is turned into its text *)
ConvertStringifies(value) ==
    CASE value[1] = "bool"         -> QStr(IF value[2] THEN "true" ELSE "false")
      [] value[1] = "int"          -> QStr(ToString(value[2]))
      [] value[1] = "QDateTime"    -> QStr(IsoDate(value[2]))
      [] value[1] = "QVariantList" -> <<"QJsonArray", value[2]>>
      [] value[1] = "QVariantMap"  -> <<"QJsonObject", value[2]>>
      [] OTHER                     -> value

(* Entity::convertForHomeAssistant.  The items of a list and the values of  *)
(* a map go through QJsonValue::fromVariant as they are, so a boolean among *)
(* them stays a boolean.                                                    *)
ConvertForHomeAssistant(value) ==
    CASE value[1] = "bool"         -> QStr(IF value[2] THEN "true" ELSE "false")
      [] value[1] = "QDateTime"    -> QStr(IsoDate(value[2]))
      [] value[1] = "QVariantList" -> <<"QJsonArray", value[2]>>
      [] value[1] = "QVariantMap"  -> <<"QJsonObject", value[2]>>
      [] value[1] = "UserType"     -> value
      [] OTHER                     -> value

(* bug: no connected-check *)
PublishAttributesUnguarded(e, this, st) ==
    LET obj == [k \in DOMAIN this.m_attributes |->
                   ConvertForHomeAssistant(this.m_attributes[k])]
    IN  <<Publish(e, "attributes", BaseTopic(this) \o "/attributes",
                  ToJson(obj), obj, 0, TRUE)>>

(* Entity::publishAttributes, with st the client's state() at the call. *)
PublishAttributes(e, this, st) ==
    IF st # "Connected"
    THEN <<>>
    ELSE LET obj == [k \in DOMAIN this.m_attributes |->
                        ConvertForHomeAssistant(this.m_attributes[k])]
         IN  <<Publish(e, "attributes", BaseTopic(this) \o "/attributes",
                       ToJson(obj), obj, 0, TRUE)>>

-----------------------------------------------------------------------------
(* Switch (src/entities/switch.cpp) and Sensor (src/entities/sensor.cpp) *)

NewSwitch ==
    [kind |-> "Switch", m_id |-> "", m_name |-> "", m_haType |-> "switch",
     m_haIcon |-> "", m_haConfig |-> EmptyMap, m_attributes |-> EmptyMap,
     m_state |-> FALSE]

NewSensor ==
    [kind |-> "Sensor", m_id |-> "", m_name |-> "", m_haType |-> "",
     m_haIcon |-> "", m_haConfig |-> EmptyMap, m_attributes |-> EmptyMap,
     m_state |-> ""]

(* bug: the state is published without the retain flag *)
SwitchPublishStateUnretained(e, this, st, state) ==
    IF st = "Connected"
    THEN <<Publish(e, "state", BaseTopic(this),
                   IF state THEN "true" ELSE "false", EmptyMap, 0, FALSE)>>
    ELSE <<>>

(* The publish of Switch::setState. *)
SwitchPublishState(e, this, st, state) ==
    IF st = "Connected"
    THEN <<Publish(e, "state", BaseTopic(this),
                   IF state THEN "true" ELSE "false", EmptyMap, 0, TRUE)>>
    ELSE <<>>

SwitchConfigure(this) ==
    SetDiscoveryConfig(
      SetDiscoveryConfig(
        SetDiscoveryConfig(
          SetDiscoveryConfig(this, "state_topic", QStr(BaseTopic(this))),
          "command_topic", QStr(BaseTopic(this) \o "/set")),
        "payload_on", QStr("true")),
      "payload_off", QStr("false"))

(* bug: the Switch republishes its attributes on every connection *)
SwitchInitCallsWithAttributes(e, this, st) ==
    SendRegistration(e, SwitchConfigure(this))
    \o SwitchPublishState(e, SwitchConfigure(this), st, this.m_state)
    \o PublishAttributes(e, SwitchConfigure(this), st)
    \o <<Subscribe(e, BaseTopic(this) \o "/set")>>

(* bug: the state is published before the entity is registered *)
SwitchInitCallsStateFirst(e, this, st) ==
    SwitchPublishState(e, SwitchConfigure(this), st, this.m_state)
    \o SendRegistration(e, SwitchConfigure(this))
    \o <<Subscribe(e, BaseTopic(this) \o "/set")>>

(* bug: init() publishes the default state, not the stored one *)
SwitchInitCallsDefaultState(e, this, st) ==
    SendRegistration(e, SwitchConfigure(this))
    \o SwitchPublishState(e, SwitchConfigure(this), st, FALSE)
    \o <<Subscribe(e, BaseTopic(this) \o "/set")>>

(* Switch::init up to and including the subscribe call. *)
SwitchInitCalls(e, this, st) ==
    SendRegistration(e, SwitchConfigure(this))
    \o SwitchPublishState(e, SwitchConfigure(this), st, this.m_state)
    \o <<Subscribe(e, BaseTopic(this) \o "/set")>>

(* bug: every payload other than "true" is taken as a request for off *)
SwitchOnMessageLenient(e, payload) ==
    IF payload = "true"
    THEN <<Signal(e, "stateChangeRequested", TRUE)>>
    ELSE <<Signal(e, "stateChangeRequested", FALSE)>>

(* The lambda Switch::init connects to messageReceived. *)
SwitchOnMessage(e, payload) ==
    IF payload = "true"
    THEN <<Signal(e, "stateChangeRequested", TRUE)>>
    ELSE IF payload = "false"
         THEN <<Signal(e, "stateChangeRequested", FALSE)>>
         ELSE <<>>

SensorPublishState(e, this, st) ==
    IF st # "Connected"
    THEN <<>>
    ELSE <<Publish(e, "state", BaseTopic(this), this.m_state, EmptyMap, 0, TRUE)>>

SensorConfigure(this) ==
    SetDiscoveryConfig(SetHaType(this, "sensor"), "state_topic", QStr(BaseTopic(this)))

SensorInitCalls(e, this, st) ==
    SendRegistration(e, SensorConfigure(this))
    \o SensorPublishState(e, SensorConfigure(this), st)
    \o PublishAttributes(e, SensorConfigure(this), st)

-----------------------------------------------------------------------------
(* Notify (src/entities/notify.cpp) and Camera (src/entities/camera.cpp) *)

MaxPayloadLen == 2  \* bytes in a payload delivered to a Notify or a Camera
MaxImageLen == 2    \* characters of base64 in an image

(* Bytes of a payload: "h", and the two bytes of U+00E9, neither of which   *)
(* is UTF-8 text alone or in the other order.                               *)
PayloadBytes == {104, 195, 169}

BytePayloads == UNION { [1..n -> PayloadBytes] : n \in 0..MaxPayloadLen }

Images == UNION { [1..n -> {"Q"}] : n \in 0..MaxImageLen }

(* QDateTime::currentDateTimeUtc() *)
Clock == { <<2025, 1, 2, 3, 4, 5>> }

ReplacementCharacter == 65533

IsContinuation(b) == b \in 128..191

(* QString::fromUtf8 on the bytes b, as code points of the Basic            *)
(* Multilingual Plane: a byte that begins no well-formed sequence becomes   *)
(* U+FFFD.                                                                  *)
RECURSIVE FromUtf8(_)
FromUtf8(b) ==
    IF b = <<>>
    THEN <<>>
    ELSE IF b[1] < 128
    THEN <<b[1]>> \o FromUtf8(Tail(b))
    ELSE IF b[1] \in 194..223 /\ Len(b) >= 2 /\ IsContinuation(b[2])
    THEN <<(b[1] - 192) * 64 + (b[2] - 128)>> \o FromUtf8(Tail(Tail(b)))
    ELSE IF /\ b[1] \in 224..239
            /\ Len(b) >= 3
            /\ IsContinuation(b[2])
            /\ IsContinuation(b[3])
            /\ b[1] = 224 => b[2] >= 160
            /\ b[1] = 237 => b[2] < 160
    THEN <<(b[1] - 224) * 4096 + (b[2] - 128) * 64 + (b[3] - 128)>>
         \o FromUtf8(Tail(Tail(Tail(b))))
    ELSE <<ReplacementCharacter>> \o FromUtf8(Tail(b))

(* QString::toUtf8 *)
RECURSIVE ToUtf8(_)
ToUtf8(text) ==
    IF text = <<>>
    THEN <<>>
    ELSE (IF text[1] < 128
          THEN <<text[1]>>
          ELSE IF text[1] < 2048
          THEN <<192 + (text[1] \div 64), 128 + (text[1] % 64)>>
          ELSE <<224 + (text[1] \div 4096), 128 + ((text[1] \div 64) % 64),
                 128 + (text[1] % 64)>>)
         \o ToUtf8(Tail(text))

(* The payload is UTF-8 text. *)
IsText(b) == ToUtf8(FromUtf8(b)) = b

NewNotify ==
    [kind |-> "Notify", m_id |-> "", m_name |-> "", m_haType |-> "",
     m_haIcon |-> "", m_haConfig |-> EmptyMap, m_attributes |-> EmptyMap]

NewCamera ==
    [kind |-> "Camera", m_id |-> "", m_name |-> "", m_haType |-> "",
     m_haIcon |-> "", m_haConfig |-> EmptyMap, m_attributes |-> EmptyMap]

NotifyConfigure(this) ==
    SetDiscoveryConfig(
      SetDiscoveryConfig(SetHaType(this, "notify"),
                         "state_topic", QStr(BaseTopic(this))),
      "command_topic", QStr(BaseTopic(this) \o "/notifications"))

(* Notify::init up to and including the subscribe call. *)
NotifyInitCalls(e, this, st) ==
    SendRegistration(e, NotifyConfigure(this))
    \o <<Subscribe(e, BaseTopic(this) \o "/notifications")>>

(* bug: a message with an empty payload is dropped *)
NotifyOnMessageSkipsEmpty(e, payload) ==
    IF payload = <<>>
    THEN <<>>
    ELSE <<Signal(e, "notificationReceived", FromUtf8(payload))>>

(* The lambda Notify::init connects to messageReceived. *)
NotifyOnMessage(e, payload) ==
    <<Signal(e, "notificationReceived", FromUtf8(payload))>>

CameraConfigure(this) ==
    SetDiscoveryConfig(
      SetDiscoveryConfig(
        SetDiscoveryConfig(SetHaType(this, "camera"),
                           "topic", QStr(BaseTopic(this))),
        "image_encoding", QStr("b64")),
      "command_topic", QStr(BaseTopic(this) \o "/command"))

(* Camera::init up to and including the subscribe call. *)
CameraInitCalls(e, this, st) ==
    SendRegistration(e, CameraConfigure(this))
    \o <<Subscribe(e, BaseTopic(this) \o "/command")>>

(* The lambda Camera::init connects to messageReceived. *)
CameraOnMessage(e, payload) ==
    <<Signal(e, "commandReceived", FromUtf8(payload))>>

(* The attributes Camera::publishImage sets: toString(Qt::ISODate) of a UTC *)
(* time ends in "Z".                                                        *)
ImageAttributes(imageDataBase64, now) ==
    [timestamp |-> QStr(IsoDate(now) \o "Z"),
     size_bytes |-> QInt(Len(imageDataBase64))]

(* bug: the image is published whatever the state of the client *)
CameraPublishImageUnguarded(e, this, st, imageDataBase64, now) ==
    LET s1 == [this EXCEPT !.m_attributes = ImageAttributes(imageDataBase64, now)]
    IN  [this |-> s1,
         calls |-> <<Publish(e, "image", BaseTopic(this), Str(imageDataBase64),
                             EmptyMap, 0, TRUE)>>
                   \o PublishAttributesUnguarded(e, s1, st)]

(* Camera::publishImage: the Camera as it leaves it, and its calls. *)
CameraPublishImage(e, this, st, imageDataBase64, now) ==
    IF st # "Connected"
    THEN [this |-> this, calls |-> <<>>]
    ELSE LET s1 == [this EXCEPT !.m_attributes = ImageAttributes(imageDataBase64, now)]
         IN  [this |-> s1,
              calls |-> <<Publish(e, "image", BaseTopic(this), Str(imageDataBase64),
                                  EmptyMap, 0, TRUE)>>
                        \o PublishAttributes(e, s1, st)]

-----------------------------------------------------------------------------
(* The MQTT client (QMqttClient, outside the repository) *)

NoSubs == [t \in {} |-> <<>>]

(* subscribe(topic) followed by connect(subscription, messageReceived, this, *)
(* lambda): an active subscription to the topic is returned as it is, else a *)
(* new one is made; a client that is not connected returns no subscription.  *)
ClientSubscribe(s, st, topic, e) ==
    IF st # "Connected"
    THEN s
    ELSE IF topic \in DOMAIN s
         THEN [s EXCEPT ![topic] = Append(@, e)]
         ELSE [t \in DOMAIN s \cup {topic} |-> IF t = topic THEN <<e>> ELSE s[t]]

RECURSIVE ApplySubscribes(_, _, _)
ApplySubscribes(s, st, cs) ==
    IF cs = <<>>
    THEN s
    ELSE ApplySubscribes(
             IF Head(cs).call = "subscribe"
             THEN ClientSubscribe(s, st, Head(cs).topic, Head(cs).by)
             ELSE s,
             st, Tail(cs))

RECURSIVE Handlers(_)
Handlers(s) ==
    IF DOMAIN s = {}
    THEN 0
    ELSE LET t == CHOOSE t \in DOMAIN s : TRUE
         IN  Len(s[t]) + Handlers([u \in DOMAIN s \ {t} |-> s[u]])

(* The subscriptions a CONNACK leaves: kept when the broker restored the     *)
(* session, dropped otherwise.                                               *)
AfterConnack(s, sessionPresent) == IF sessionPresent THEN s ELSE NoSubs

-----------------------------------------------------------------------------
(* init(), dispatched on the entity's class *)

InitThis(this) ==
    CASE this.kind = "Switch" -> SwitchConfigure(this)
      [] this.kind = "Sensor" -> SensorConfigure(this)
      [] this.kind = "Notify" -> NotifyConfigure(this)
      [] this.kind = "Camera" -> CameraConfigure(this)

InitCalls(e, this, st) ==
    CASE this.kind = "Switch" -> SwitchInitCalls(e, this, st)
      [] this.kind = "Sensor" -> SensorInitCalls(e, this, st)
      [] this.kind = "Notify" -> NotifyInitCalls(e, this, st)
      [] this.kind = "Camera" -> CameraInitCalls(e, this, st)

(* The lambda the entity e connected to its subscription. *)
OnMessage(e, payload) ==
    CASE ents[e].kind = "Switch" -> SwitchOnMessage(e, payload)
      [] ents[e].kind = "Notify" -> NotifyOnMessage(e, payload)
      [] ents[e].kind = "Camera" -> CameraOnMessage(e, payload)

(* The slots connected to QMqttClient::connected, one per entity (made in    *)
(* Entity::Entity), run in construction order.                               *)
(* bug: an entity that has registered once is not initialised again *)
RECURSIVE RunInitsFirstOnly(_, _, _, _)
RunInitsFirstOnly(i, es, cs, rn) ==
    IF i > Len(es)
    THEN [ents |-> es, calls |-> cs, ran |-> rn]
    ELSE IF "state_topic" \in DOMAIN es[i].m_haConfig
         THEN RunInitsFirstOnly(i + 1, es, cs, rn)
         ELSE RunInitsFirstOnly(i + 1,
                  [es EXCEPT ![i] = InitThis(es[i])],
                  cs \o InitCalls(i, es[i], "Connected"),
                  Append(rn, [by |-> i, rerun |-> FALSE,
                              pending |-> pendingAttrs[i],
                              missed |-> missedState[i]]))

(* `rn` records each run: whether that entity had run init() before (init() *)
(* leaves state_topic in the overlay), and whether it holds attributes that  *)
(* were set, and dropped, while the client was not connected.                *)
RECURSIVE RunInits(_, _, _, _)
RunInits(i, es, cs, rn) ==
    IF i > Len(es)
    THEN [ents |-> es, calls |-> cs, ran |-> rn]
    ELSE RunInits(i + 1,
                  [es EXCEPT ![i] = InitThis(es[i])],
                  cs \o InitCalls(i, es[i], "Connected"),
                  Append(rn, [by |-> i,
                              rerun |-> "state_topic" \in DOMAIN es[i].m_haConfig,
                              pending |-> pendingAttrs[i],
                              missed |-> missedState[i]]))

RECURSIVE Deliver(_, _)
Deliver(handlers, payload) ==
    IF handlers = <<>>
    THEN <<>>
    ELSE OnMessage(Head(handlers), payload) \o Deliver(Tail(handlers), payload)

-----------------------------------------------------------------------------
(* Bookkeeping of what an action did *)

Fields(this) ==
    <<this.m_id, this.m_name, this.m_haType, this.m_haIcon, this.m_haConfig>>

Identity(this) == <<this.m_id, this.m_haType>>

(* The topics the calls `cs` of entity e name, each with the kind of topic  *)
(* it is, and the unique_id of the discovery documents among them.          *)
TopicsOf(cs, e) ==
    {<<cs[i].site, cs[i].topic>> : i \in {j \in 1..Len(cs) : cs[j].by = e}}
    \cup {<<"unique_id", cs[i].doc["unique_id"][2]>> :
             i \in {j \in 1..Len(cs) : cs[j].by = e /\ cs[j].site = "discovery"}}

Sites(cs, e, site) ==
    {i \in 1..Len(cs) : cs[i].call = "publish" /\ cs[i].by = e /\ cs[i].site = site}

(* What the last action was: the operation or event, the entity it was    *)
(* called on (0: the client), the message delivered, and the entities it    *)
(* registered again with no change to their fields since their last         *)
(* registration.                                                            *)
Op(name, e) == [op |-> name, by |-> e, topic |-> "", payload |-> "", repeat |-> {}]

Message(topic, payload) ==
    [op |-> "messageReceived", by |-> 0, topic |-> topic, payload |-> payload,
     repeat |-> {}]

Record(op, newEnts, newCalls, newEmitted, newRan) ==
    /\ lastOp' = [op EXCEPT !.repeat =
                     {e \in 1..Len(ents) :
                        /\ lastDisc[e] # NoDisc
                        /\ Fields(newEnts[e]) = Fields(ents[e])
                        /\ Sites(newCalls, e, "discovery") # {}}]
    /\ ents' = newEnts
    /\ calls' = newCalls
    /\ emitted' = newEmitted
    /\ ran' = newRan
    /\ lastDisc' =
         [e \in 1..Len(newEnts) |->
            LET d == Sites(newCalls, e, "discovery") IN
            IF d # {}
            THEN LET i == CHOOSE i \in d : \A j \in d : j <= i
                 IN  [topic |-> newCalls[i].topic, payload |-> newCalls[i].payload]
            ELSE IF e <= Len(ents) /\ Fields(newEnts[e]) = Fields(ents[e])
                 THEN lastDisc[e]
                 ELSE NoDisc]
    /\ everDisc' =
         [e \in 1..Len(newEnts) |->
            \/ e <= Len(ents) /\ everDisc[e]
            \/ Sites(newCalls, e, "discovery") # {}]
    /\ pendingAttrs' =
         [e \in 1..Len(newEnts) |->
            IF Sites(newCalls, e, "attributes") # {} \/ op.op = "connected"
            THEN FALSE
            ELSE \/ e <= Len(ents) /\ pendingAttrs[e]
                 \/ op.op = "setAttributes" /\ op.by = e]
    /\ usedTopics' =
         IF usedTopics.on
         THEN [usedTopics EXCEPT !.of =
                 [e \in 1..Len(newEnts) |->
                    (IF e <= Len(ents) /\ Identity(newEnts[e]) = Identity(ents[e])
                     THEN usedTopics.of[e]
                     ELSE {})
                    \cup TopicsOf(newCalls, e)]]
         ELSE usedTopics
    /\ missedState' =
         [e \in 1..Len(newEnts) |->
            /\ usedTopics.on
            /\ Sites(newCalls, e, "state") = {}
            /\ \/ e <= Len(ents) /\ missedState[e]
               \/ op.op = "setState" /\ op.by = e]

(* An operation or event of the entity core: the helpers are not involved. *)
Done(op, newEnts, newCalls, newEmitted, newRan) ==
    /\ Record(op, newEnts, newCalls, newEmitted, newRan)
    /\ UNCHANGED <<flatpak, inhibitor, docker>>

-----------------------------------------------------------------------------
(* FlatpakHelper (src/flatpakhelper.cpp) *)

(* A command line is the sequence of its characters. *)
FlatpakSpawn ==
    <<"f", "l", "a", "t", "p", "a", "k", "-", "s", "p", "a", "w", "n">>

FlatpakSpawnHost ==
    <<"f", "l", "a", "t", "p", "a", "k", "-", "s", "p", "a", "w", "n", " ",
      "-", "-", "h", "o", "s", "t", " ">>

Background == <<" ", "&">>

Commands == {
    <<"s", "y", "s", "t", "e", "m", "c", "t", "l", " ", "-", "-", "u", "s",
      "e", "r", " ", "s", "t", "a", "t", "u", "s">>,
    <<"f", "l", "a", "t", "p", "a", "k", "-", "s", "p", "a", "w", "n", " ",
      "-", "-", "h", "o", "s", "t", " ", "l", "s">>,
    <<"f", "l", "a", "t", "p", "a", "k", "-", "s", "p", "a", "w", "n", "e",
      "r">>,
    <<"w", "h", "i", "c", "h">> }

MaxArgs == 2        \* longest argument list passed to executeCommand

ArgumentLists == UNION { [1..n -> {"--user", "status", "kiot"}] : n \in 0..MaxArgs }

StartsWith(s, prefix) ==
    /\ Len(s) >= Len(prefix)
    /\ SubSeq(s, 1, Len(prefix)) = prefix

(* QStringList::prepend *)
Prepend(list, x) == <<x>> \o list

(* FlatpakHelper::adaptCommand, isFlatpak being what isFlatpak() returns. *)
AdaptCommand(isFlatpak, command) ==
    IF isFlatpak /\ ~StartsWith(command, FlatpakSpawn)
    THEN FlatpakSpawnHost \o command \o Background
    ELSE command

(* FlatpakHelper::executeCommand: the program and the arguments it gives to *)
(* QProcess.                                                                *)
ExecuteCommand(isFlatpak, command, arguments) ==
    IF isFlatpak /\ ~StartsWith(command, FlatpakSpawn)
    THEN [program |-> "flatpak-spawn",
          arguments |-> Prepend(Prepend(arguments, "--host"), Str(command))]
    ELSE [program |-> Str(command), arguments |-> arguments]

NoCall == [op |-> "none", command |-> <<>>, arguments |-> <<>>, result |-> "",
           program |-> "", args |-> <<>>]

(* No helper call is followed where the entity core is. *)
FlatpakIdle == flatpak = [isFlatpak |-> FALSE, call |-> NoCall]

-----------------------------------------------------------------------------
(* DockerSwitch (src/integrations/docker.cpp) *)

MaxEvents == 2      \* container events the listener emits in one run

(* The one container enabled in the configuration. *)
Key == "web"

(* What DockerEventListener::run emits: the container's name and the        *)
(* status of the daemon's event.                                            *)
Events == [name : {"web", "db"}, status : {"start"}]

(* made: the DockerSwitch is constructed.  running: whether the daemon runs *)
(* the container.  sent: the events the worker emitted, in order.  posted:  *)
(* the main thread's queue of the events emitted and not yet handled.       *)
(* handled: the events handleEvent has run for, each with the thread it     *)
(* ran on.  query: how the queries of each updateSwitch of the last action  *)
(* ended.  The listener thread: pc, where run() is; m_stop; socket, the     *)
(* state() of its socket; arrived, the lines the daemon wrote that the      *)
(* socket has not taken in; buffer, the lines the socket holds unread;      *)
(* received, how many lines the daemon wrote.                               *)
NoDocker == [made |-> FALSE, running |-> FALSE, sent |-> <<>>, posted |-> <<>>,
             handled |-> <<>>, query |-> <<>>,
             pc |-> "idle", m_stop |-> FALSE, socket |-> "UnconnectedState",
             arrived |-> <<>>, buffer |-> <<>>, received |-> 0]

DockerIdle == docker = NoDocker

(* The daemon after an event of its own. *)
RunningAfter(running, ev) ==
    IF ev.name = Key THEN ev.status = "start" ELSE running

(* bug: the event goes in front of the events already queued *)
PostEventInFront(queue, ev) == <<ev>> \o queue

(* emit containerEvent over the Qt::QueuedConnection: the event is posted   *)
(* at the end of the receiver thread's event queue.                         *)
PostEvent(queue, ev) == Append(queue, ev)

(* DockerSwitch::isRunning: FALSE when the call to the socket fails. *)
IsRunning(running, listOk) == listOk /\ running

(* The attributes updateSwitch reads from the daemon's inspect document. *)
InspectAttributes(running) ==
    [image   |-> QStr("nginx"),
     status  |-> QStr(IF running THEN "running" ELSE "exited"),
     running |-> QBool(running),
     created |-> QStr("2025-01-01T00:00:00Z"),
     ports   |-> QMap(EmptyMap)]

(* DockerSwitch::updateSwitch on the Switch `this`: the Switch as it leaves *)
(* it and the transport calls it makes.  listOk and inspectOk tell whether  *)
(* the two calls to the daemon's socket succeed.                            *)
UpdateSwitch(e, this, st, running, listOk, inspectOk) ==
    LET state == IsRunning(running, listOk)
        s1 == [this EXCEPT !.m_state = state]
        c1 == SwitchPublishState(e, this, st, state)
        s2 == [s1 EXCEPT !.m_attributes = InspectAttributes(running)]
    IN  IF inspectOk
        THEN [this |-> s2, calls |-> c1 \o PublishAttributes(e, s2, st)]
        ELSE [this |-> s1, calls |-> c1]

(* How the calls to the socket of one toggleContainer end. *)
Outcomes == [toggle : BOOLEAN, list : BOOLEAN, inspect : BOOLEAN]

Queries(o) == [list |-> o.list, inspect |-> o.inspect]

(* DockerSwitch::toggleContainer for every stateChangeRequested of one      *)
(* message, in order: the daemon, the Switch, the calls and the queries.    *)
RECURSIVE ToggleContainer(_, _, _, _, _)
ToggleContainer(dk, this, st, sigs, outcomes) ==
    IF sigs = <<>>
    THEN [docker |-> dk, this |-> this, calls |-> <<>>]
    ELSE LET o == Head(outcomes)
             running == IF o.toggle THEN Head(sigs).arg ELSE dk.running
             u == UpdateSwitch(1, this, st, running, o.list, o.inspect)
             rest == ToggleContainer(
                         [dk EXCEPT !.running = running,
                                    !.query = Append(@, Queries(o))],
                         u.this, st, Tail(sigs), Tail(outcomes))
         IN  [rest EXCEPT !.calls = u.calls \o @]

(* new DockerSwitch(qApp), with the container Key enabled *)
NewDockerSwitch(running, listOk, inspectOk) ==
    /\ ents = <<>>
    /\ ~docker.made
    /\ LET sw == [NewSwitch EXCEPT !.m_id = "docker_" \o Key,
                                   !.m_name = Key,
                                   !.m_haIcon = "mdi:docker"]
           u == UpdateSwitch(1, sw, mqttState, running, listOk, inspectOk)
       IN  Record(Op("newDockerSwitch", 1), <<u.this>>,
                  SendRegistration(1, sw) \o u.calls, <<>>, <<>>)
    /\ docker' = [docker EXCEPT !.made = TRUE,
                                !.running = running,
                                !.query = <<[list |-> listOk, inspect |-> inspectOk]>>,
                                !.pc = "connect"]
    /\ UNCHANGED <<localHostName, mqttState, subs, flatpak, inhibitor>>

(* emit containerEvent(name, attrs) in the worker thread *)
Emit(dk, ev) ==
    [dk EXCEPT !.running = RunningAfter(@, ev),
               !.sent = Append(@, ev),
               !.posted = PostEvent(@, ev),
               !.query = <<>>]

(* The worker thread: the listener reads an event of the daemon and emits   *)
(* containerEvent.  How the line came to be read is left out here; the      *)
(* steps of run() follow below.                                             *)
EmitContainerEvent(ev) ==
    /\ docker.made
    /\ Len(docker.sent) < MaxEvents
    /\ docker' = Emit(docker, ev)
    /\ Record(Op("containerEvent", 0), ents, <<>>, <<>>, <<>>)
    /\ UNCHANGED <<localHostName, mqttState, subs, flatpak, inhibitor>>

(* The main thread takes the first event of its queue: handleEvent. *)
HandleEvent(listOk, inspectOk) ==
    /\ docker.posted # <<>>
    /\ LET ev == Head(docker.posted)
           u == UpdateSwitch(1, ents[1], mqttState, docker.running, listOk, inspectOk)
           mine == ev.name = Key
       IN  /\ ~mine => listOk /\ inspectOk
           /\ Record(Op("handleEvent", 1),
                     IF mine THEN <<u.this>> ELSE ents,
                     IF mine THEN u.calls ELSE <<>>, <<>>, <<>>)
           /\ docker' = [docker EXCEPT
                 !.posted = Tail(@),
                 !.handled = Append(@, [event |-> ev, thread |-> "main"]),
                 !.query = IF mine
                           THEN <<[list |-> listOk, inspect |-> inspectOk]>>
                           ELSE <<>>]
    /\ UNCHANGED <<localHostName, mqttState, subs, flatpak, inhibitor>>

(* A line the daemon writes that is no event of a named container: a line   *)
(* of the HTTP header, an empty line, an event of another type.             *)
NoEvent == [name |-> "", status |-> ""]

Lines == Events \cup {NoEvent}

(* What the daemon writes at once: one line or several. *)
Chunks == UNION { [1..n -> Lines] : n \in 1..MaxEvents }

(* A step of the listener thread leaves the entities alone. *)
ListenerStep(name, newDocker) ==
    /\ docker' = newDocker
    /\ Record(Op(name, 0), ents, <<>>, <<>>, <<>>)
    /\ UNCHANGED <<localHostName, mqttState, subs, flatpak, inhibitor>>

(* The daemon writes lines to the socket of the listener. *)
DataArrives(chunk) ==
    /\ docker.socket = "ConnectedState"
    /\ docker.received + Len(chunk) <= MaxEvents
    /\ ListenerStep("dataArrives",
                    [docker EXCEPT !.arrived = @ \o chunk,
                                   !.received = @ + Len(chunk),
                                   !.query = <<>>])

(* The daemon closes the connection. *)
SocketCloses ==
    /\ docker.socket = "ConnectedState"
    /\ ListenerStep("socketCloses",
                    [docker EXCEPT !.socket = "UnconnectedState", !.query = <<>>])

(* run(): connectToServer and waitForConnected(1000); on failure run()      *)
(* returns.                                                                 *)
ListenerConnect(ok) ==
    /\ docker.pc = "connect"
    /\ ListenerStep("listenerConnect",
                    [docker EXCEPT !.pc = IF ok THEN "check" ELSE "done",
                                   !.socket = IF ok THEN "ConnectedState" ELSE @,
                                   !.query = <<>>])

(* bug: the loop does not look at the stop flag *)
ListenerCheckIgnoresStop ==
    /\ docker.pc = "check"
    /\ ListenerStep("listenerCheck",
                    [docker EXCEPT
                       !.pc = IF docker.socket = "ConnectedState"
                              THEN "wait"
                              ELSE "done",
                       !.query = <<>>])

(* run(): the condition of the while loop. *)
ListenerCheck ==
    /\ docker.pc = "check"
    /\ ListenerStep("listenerCheck",
                    [docker EXCEPT
                       !.pc = IF ~docker.m_stop /\ docker.socket = "ConnectedState"
                              THEN "wait"
                              ELSE "done",
                       !.query = <<>>])

(* run(): waitForReadyRead(1000).  It returns true when new data came in,   *)
(* which the socket then holds; with no new data it returns false after a   *)
(* second, and at once on a socket that is not connected, whatever the      *)
(* socket still holds unread.                                               *)
ListenerWait ==
    /\ docker.pc = "wait"
    /\ ListenerStep("listenerWait",
                    IF docker.arrived # <<>> /\ docker.socket = "ConnectedState"
                    THEN [docker EXCEPT !.pc = "read",
                                        !.buffer = @ \o docker.arrived,
                                        !.arrived = <<>>,
                                        !.query = <<>>]
                    ELSE [docker EXCEPT !.pc = "check", !.query = <<>>])

(* run(): one readLine(), and the emit if the line is an event of a named   *)
(* container.                                                               *)
ListenerRead ==
    /\ docker.pc = "read"
    /\ LET line == Head(docker.buffer)
           rest == [docker EXCEPT !.pc = "check", !.buffer = Tail(@), !.query = <<>>]
       IN  ListenerStep("listenerRead",
                        IF line = NoEvent THEN rest ELSE Emit(rest, line))

(* ~DockerSwitch: m_listener->stop(), then wait(). *)
StopListener ==
    /\ docker.made
    /\ ~docker.m_stop
    /\ ListenerStep("stop", [docker EXCEPT !.m_stop = TRUE, !.query = <<>>])

(* A message arrives on the command topic of the container's Switch. *)
DockerCommand(topic, payload, outcomes) ==
    /\ docker.made
    /\ mqttState = "Connected"
    /\ LET t == ToggleContainer([docker EXCEPT !.query = <<>>], ents[1], mqttState,
                                Deliver(subs[topic], payload), outcomes)
       IN  /\ Record(Message(topic, payload), <<t.this>>, t.calls,
                     Deliver(subs[topic], payload), <<>>)
           /\ docker' = t.docker
    /\ UNCHANGED <<localHostName, mqttState, subs, flatpak, inhibitor>>

-----------------------------------------------------------------------------
(* PowerInhibitor (src/integrations/powerinhibitor.cpp) *)

MaxCookie == 2      \* the policy agent hands out the cookies 1..MaxCookie

InhibitTypes == 3   \* PreventSleep | PreventScreenLocking

(* A reply of the policy agent: an error, or a value. *)
DBusError == [ok |-> FALSE, value |-> 0]
DBusValue(v) == [ok |-> TRUE, value |-> v]

AddReplies == {DBusError} \cup {DBusValue(c) : c \in 1..MaxCookie}
VoidReplies == {DBusError, DBusValue(0)}

(* A call on m_policyAgent, as recorded: `held` tells whether an inhibition *)
(* of this program was outstanding when the call was issued.                *)
DBusCall(name, arg, reply, own) ==
    [call |-> name, arg |-> arg, ok |-> reply.ok, value |-> reply.value,
     held |-> own > 0]

(* m_ownCookie, with `own` the successful AddInhibition calls minus the     *)
(* successful ReleaseInhibition calls and `log` the calls of the last       *)
(* handler.                                                                 *)
NoInhibitor ==
    [made |-> FALSE, quit |-> FALSE, m_ownCookie |-> 0, own |-> 0, log |-> <<>>]

InhibitorIdle == inhibitor = NoInhibitor

(* bug: the check for an inhibition already held is missing *)
AddInhibitionUnchecked(inh, reply) ==
    IF ~reply.ok
    THEN [inh EXCEPT !.log = Append(@, DBusCall("AddInhibition", InhibitTypes, reply, inh.own))]
    ELSE [inh EXCEPT !.m_ownCookie = reply.value,
                     !.own = @ + 1,
                     !.log = Append(@, DBusCall("AddInhibition", InhibitTypes, reply, inh.own))]

(* PowerInhibitor::addInhibition, `reply` being the agent's answer if it is *)
(* asked.                                                                   *)
AddInhibition(inh, reply) ==
    IF inh.m_ownCookie # 0
    THEN inh
    ELSE IF ~reply.ok
         THEN [inh EXCEPT !.log = Append(@, DBusCall("AddInhibition", InhibitTypes, reply, inh.own))]
         ELSE [inh EXCEPT !.m_ownCookie = reply.value,
                          !.own = @ + 1,
                          !.log = Append(@, DBusCall("AddInhibition", InhibitTypes, reply, inh.own))]

(* bug: the cookie is forgotten although the release failed *)
ReleaseOwnInhibitionForgets(inh, reply) ==
    IF inh.m_ownCookie = 0
    THEN inh
    ELSE [inh EXCEPT !.m_ownCookie = 0,
                     !.own = IF reply.ok THEN @ - 1 ELSE @,
                     !.log = Append(@, DBusCall("ReleaseInhibition",
                                                inh.m_ownCookie, reply, inh.own))]

(* PowerInhibitor::releaseOwnInhibition *)
ReleaseOwnInhibition(inh, reply) ==
    IF inh.m_ownCookie = 0
    THEN inh
    ELSE IF ~reply.ok
         THEN [inh EXCEPT !.log = Append(@, DBusCall("ReleaseInhibition",
                                                     inh.m_ownCookie, reply, inh.own))]
         ELSE [inh EXCEPT !.m_ownCookie = 0,
                          !.own = @ - 1,
                          !.log = Append(@, DBusCall("ReleaseInhibition",
                                                     inh.m_ownCookie, reply, inh.own))]

(* PowerInhibitor::onSwitchToggled; a release is answered like an add,     *)
(* with an error or not.                                                    *)
OnSwitchToggled(inh, enabled, reply) ==
    IF enabled
    THEN AddInhibition(inh, reply)
    ELSE ReleaseOwnInhibition(inh, reply)

(* The slot runs inside every emit of stateChangeRequested, in order. *)
RECURSIVE OnSignals(_, _, _)
OnSignals(inh, sigs, replies) ==
    IF sigs = <<>>
    THEN inh
    ELSE OnSignals(OnSwitchToggled(inh, Head(sigs).arg, Head(replies)),
                   Tail(sigs), Tail(replies))

AdaptCommandOp(command) ==
    /\ flatpak' = [flatpak EXCEPT !.call =
                      [NoCall EXCEPT !.op = "adaptCommand",
                                     !.command = command,
                                     !.result = Str(AdaptCommand(flatpak.isFlatpak, command))]]
    /\ UNCHANGED <<entityVars, inhibitor, docker>>

ExecuteCommandOp(command, arguments) ==
    /\ LET p == ExecuteCommand(flatpak.isFlatpak, command, arguments)
       IN  flatpak' = [flatpak EXCEPT !.call =
                         [NoCall EXCEPT !.op = "executeCommand",
                                        !.command = command,
                                        !.arguments = arguments,
                                        !.program = p.program,
                                        !.args = p.arguments]]
    /\ UNCHANGED <<entityVars, inhibitor, docker>>

(* ListInhibitions as the agent answers it: this program's inhibition if   *)
(* it has one, and another application's if there is one.                   *)
Inhibitions(own, others) ==
    (IF own > 0 THEN << <<"Kiot", "Manual block from Home Assistant">> >> ELSE <<>>)
    \o (IF others THEN << <<"vlc", "Playing video">> >> ELSE <<>>)

(* bug: the value of the reply is taken although the query failed *)
UpdateStateFromDBusUnchecked(e, this, st, hasReply, listReply) ==
    LET state == hasReply.ok /\ hasReply.value
        s1 == [this EXCEPT !.m_state = state]
        c1 == SwitchPublishState(e, this, st, state)
        list == IF listReply.ok THEN listReply.value ELSE <<>>
        inhibitors == [i \in 1..Len(list) |->
                          QMap([app |-> QStr(list[i][1]), reason |-> QStr(list[i][2])])]
        attributes == [active_inhibitors |-> QList(inhibitors),
                       count |-> QInt(Len(inhibitors))]
        s2 == [s1 EXCEPT !.m_attributes = attributes]
    IN  [this |-> s2, calls |-> c1 \o PublishAttributes(e, s2, st)]

(* PowerInhibitor::updateStateFromDBus on the Switch `this`: the Switch as  *)
(* it leaves it, and the transport calls it makes.  hasReply and listReply  *)
(* are the agent's answers.                                                 *)
UpdateStateFromDBus(e, this, st, hasReply, listReply) ==
    LET s1 == IF hasReply.ok THEN [this EXCEPT !.m_state = hasReply.value] ELSE this
        c1 == IF hasReply.ok
              THEN SwitchPublishState(e, this, st, hasReply.value)
              ELSE <<>>
        list == IF listReply.ok THEN listReply.value ELSE <<>>
        inhibitors == [i \in 1..Len(list) |->
                          QMap([app |-> QStr(list[i][1]), reason |-> QStr(list[i][2])])]
        attributes == [active_inhibitors |-> QList(inhibitors),
                       count |-> QInt(Len(inhibitors))]
        s2 == [s1 EXCEPT !.m_attributes = attributes]
    IN  [this |-> s2, calls |-> c1 \o PublishAttributes(e, s2, st)]

HasReply(own, others, ok) == IF ok THEN DBusValue(own > 0 \/ others) ELSE DBusError
ListReply(own, others, ok) == IF ok THEN DBusValue(Inhibitions(own, others)) ELSE DBusError

QueryLog(inh, hasReply, listReply) ==
    [inh EXCEPT !.log = << DBusCall("HasInhibition", InhibitTypes, hasReply, inh.own),
                          DBusCall("ListInhibitions", 0, listReply, inh.own) >>]

(* new PowerInhibitor(qApp) *)
NewPowerInhibitor(others, hasOk, listOk) ==
    /\ ents = <<>>
    /\ ~inhibitor.made
    /\ LET sw == [NewSwitch EXCEPT !.m_id = "inhibit",
                                   !.m_name = "Sleep and screen lock inhibitor"]
           hasReply == HasReply(0, others, hasOk)
           listReply == ListReply(0, others, listOk)
           u == UpdateStateFromDBus(1, sw, mqttState, hasReply, listReply)
       IN  /\ Record(Op("newPowerInhibitor", 1), <<u.this>>,
                     SwitchPublishState(1, sw, mqttState, FALSE)
                     \o PublishAttributes(1, sw, mqttState)
                     \o u.calls,
                     <<>>, <<>>)
           /\ inhibitor' = QueryLog([inhibitor EXCEPT !.made = TRUE], hasReply, listReply)
    /\ UNCHANGED <<localHostName, mqttState, subs, flatpak, docker>>

(* The agent's InhibitionsChanged signal arrives. *)
OnInhibitionsChanged(others, hasOk, listOk) ==
    /\ inhibitor.made
    /\ LET hasReply == HasReply(inhibitor.own, others, hasOk)
           listReply == ListReply(inhibitor.own, others, listOk)
           u == UpdateStateFromDBus(1, ents[1], mqttState, hasReply, listReply)
       IN  /\ Record(Op("onInhibitionsChanged", 1), <<u.this>>, u.calls, <<>>, <<>>)
           /\ inhibitor' = QueryLog(inhibitor, hasReply, listReply)
    /\ UNCHANGED <<localHostName, mqttState, subs, flatpak, docker>>

(* A message arrives on the command topic of the inhibit Switch: every      *)
(* stateChangeRequested it emits runs onSwitchToggled before the next.      *)
InhibitCommand(topic, payload, replies) ==
    /\ inhibitor.made
    /\ mqttState = "Connected"
    /\ \A i \in 1..Len(replies) :
          i > Len(Deliver(subs[topic], payload)) => replies[i] = DBusError
    /\ Record(Message(topic, payload), ents, <<>>, Deliver(subs[topic], payload), <<>>)
    /\ inhibitor' = OnSignals([inhibitor EXCEPT !.log = <<>>],
                              Deliver(subs[topic], payload), replies)
    /\ UNCHANGED <<localHostName, mqttState, subs, flatpak, docker>>

(* bug: the application quits without releasing its inhibition *)
AboutToQuitKeeps(reply) ==
    /\ inhibitor.made
    /\ inhibitor' = [inhibitor EXCEPT !.log = <<>>, !.quit = TRUE]
    /\ Record(Op("aboutToQuit", 0), ents, <<>>, <<>>, <<>>)
    /\ UNCHANGED <<localHostName, mqttState, subs, flatpak, docker>>

(* QCoreApplication::aboutToQuit *)
AboutToQuit(reply) ==
    /\ inhibitor.made
    /\ inhibitor' = [ReleaseOwnInhibition([inhibitor EXCEPT !.log = <<>>], reply)
                        EXCEPT !.quit = TRUE]
    /\ Record(Op("aboutToQuit", 0), ents, <<>>, <<>>, <<>>)
    /\ UNCHANGED <<localHostName, mqttState, subs, flatpak, docker>>

-----------------------------------------------------------------------------
(* Actions *)

Init ==
    /\ localHostName \in HostNames
    /\ mqttState = "Disconnected"
    /\ subs = NoSubs
    /\ ents = <<>>
    /\ lastOp = Op("start", 0)
    /\ calls = <<>>
    /\ emitted = <<>>
    /\ ran = <<>>
    /\ lastDisc = <<>>
    /\ everDisc = <<>>
    /\ pendingAttrs = <<>>
    /\ usedTopics = [on |-> FALSE, of |-> <<>>]
    /\ missedState = <<>>
    /\ FlatpakIdle
    /\ InhibitorIdle
    /\ DockerIdle

(* new Switch(parent) *)
CreateSwitch ==
    /\ ents = <<>>
    /\ Done(Op("new", Len(ents) + 1), Append(ents, NewSwitch), <<>>, <<>>, <<>>)
    /\ UNCHANGED <<localHostName, mqttState, subs>>

(* new Sensor(parent) *)
CreateSensor ==
    /\ ents = <<>>
    /\ Done(Op("new", Len(ents) + 1), Append(ents, NewSensor), <<>>, <<>>, <<>>)
    /\ UNCHANGED <<localHostName, mqttState, subs>>

(* new Notify(parent) *)
CreateNotify ==
    /\ ents = <<>>
    /\ Done(Op("new", Len(ents) + 1), Append(ents, NewNotify), <<>>, <<>>, <<>>)
    /\ UNCHANGED <<localHostName, mqttState, subs>>

(* new Camera(parent) *)
CreateCamera ==
    /\ ents = <<>>
    /\ Done(Op("new", Len(ents) + 1), Append(ents, NewCamera), <<>>, <<>>, <<>>)
    /\ UNCHANGED <<localHostName, mqttState, subs>>

(* bug: publishImage does not look at the state of the client *)
PublishImageUnguarded(e, imageDataBase64, now) ==
    /\ ents[e].kind = "Camera"
    /\ LET p == CameraPublishImageUnguarded(e, ents[e], mqttState, imageDataBase64, now)
       IN  Done(Op("publishImage", e), [ents EXCEPT ![e] = p.this], p.calls, <<>>, <<>>)
    /\ UNCHANGED <<localHostName, mqttState, subs>>

PublishImage(e, imageDataBase64, now) ==
    /\ ents[e].kind = "Camera"
    /\ LET p == CameraPublishImage(e, ents[e], mqttState, imageDataBase64, now)
       IN  Done(Op("publishImage", e), [ents EXCEPT ![e] = p.this], p.calls, <<>>, <<>>)
    /\ UNCHANGED <<localHostName, mqttState, subs>>

SetId(e, newId) ==
    /\ Done(Op("setId", e), [ents EXCEPT ![e].m_id = newId], <<>>, <<>>, <<>>)
    /\ UNCHANGED <<localHostName, mqttState, subs>>

SetName(e, newName) ==
    /\ Done(Op("setName", e), [ents EXCEPT ![e].m_name = newName], <<>>, <<>>, <<>>)
    /\ UNCHANGED <<localHostName, mqttState, subs>>

(* bug: a change of the overlay is published at once *)
SetDiscoveryConfigRepublishes(e, key, value) ==
    /\ Done(Op("setDiscoveryConfig", e),
            [ents EXCEPT ![e] = SetDiscoveryConfig(@, key, value)],
            SendRegistration(e, SetDiscoveryConfig(ents[e], key, value)), <<>>, <<>>)
    /\ UNCHANGED <<localHostName, mqttState, subs>>

SetDiscoveryConfigOp(e, key, value) ==
    /\ Done(Op("setDiscoveryConfig", e),
            [ents EXCEPT ![e] = SetDiscoveryConfig(@, key, value)], <<>>, <<>>, <<>>)
    /\ UNCHANGED <<localHostName, mqttState, subs>>

(* bug: the registration is sent before the new icon is stored *)
SetHaIconRegistersFirst(e, newHaIcon) ==
    /\ Done(Op("setHaIcon", e),
            [ents EXCEPT ![e].m_haIcon = newHaIcon],
            SendRegistration(e, ents[e]),
            <<>>, <<>>)
    /\ UNCHANGED <<localHostName, mqttState, subs>>

SetHaIcon(e, newHaIcon) ==
    /\ Done(Op("setHaIcon", e),
            [ents EXCEPT ![e].m_haIcon = newHaIcon],
            SendRegistration(e, [ents[e] EXCEPT !.m_haIcon = newHaIcon]),
            <<>>, <<>>)
    /\ UNCHANGED <<localHostName, mqttState, subs>>

SetAttributes(e, attrs) ==
    /\ Done(Op("setAttributes", e),
            [ents EXCEPT ![e].m_attributes = attrs],
            PublishAttributes(e, [ents[e] EXCEPT !.m_attributes = attrs], mqttState),
            <<>>, <<>>)
    /\ UNCHANGED <<localHostName, mqttState, subs>>

SwitchSetState(e, state) ==
    /\ ents[e].kind = "Switch"
    /\ Done(Op("setState", e),
            [ents EXCEPT ![e].m_state = state],
            SwitchPublishState(e, ents[e], mqttState, state),
            <<>>, <<>>)
    /\ UNCHANGED <<localHostName, mqttState, subs>>

SensorSetState(e, state) ==
    /\ ents[e].kind = "Sensor"
    /\ Done(Op("setState", e),
            [ents EXCEPT ![e].m_state = state],
            SensorPublishState(e, [ents[e] EXCEPT !.m_state = state], mqttState),
            <<>>, <<>>)
    /\ UNCHANGED <<localHostName, mqttState, subs>>

(* QMqttClient::connectToHost *)
ConnectToHost ==
    /\ mqttState = "Disconnected"
    /\ mqttState' = "Connecting"
    /\ Done(Op("connectToHost", 0), ents, <<>>, <<>>, <<>>)
    /\ UNCHANGED <<localHostName, subs>>

(* The broker accepts: the client becomes Connected and emits connected(). *)
Connected(sessionPresent) ==
    /\ mqttState = "Connecting"
    /\ sessionPresent => Handlers(subs) < MaxHandlers
    /\ mqttState' = "Connected"
    /\ LET r == RunInits(1, ents, <<>>, <<>>)
       IN  /\ subs' = ApplySubscribes(AfterConnack(subs, sessionPresent),
                                      "Connected", r.calls)
           /\ Done(Op("connected", 0), r.ents, r.calls, <<>>, r.ran)
    /\ UNCHANGED localHostName

(* The connection is lost or refused. *)
Disconnected ==
    /\ mqttState # "Disconnected"
    /\ mqttState' = "Disconnected"
    /\ Done(Op("disconnected", 0), ents, <<>>, <<>>, <<>>)
    /\ UNCHANGED <<localHostName, subs>>

(* bug: the Switch takes the commanded state as its own and publishes it *)
MessageReceivedApplies(topic, payload) ==
    /\ mqttState = "Connected"
    /\ LET e == Head(subs[topic])
           state == (payload = "true")
       IN  Done(Message(topic, payload),
                [ents EXCEPT ![e].m_state = state],
                SwitchPublishState(e, ents[e], mqttState, state),
                Deliver(subs[topic], payload), <<>>)
    /\ UNCHANGED <<localHostName, mqttState, subs>>

(* A message arrives on a subscribed topic. *)
MessageReceived(topic, payload) ==
    /\ mqttState = "Connected"
    /\ Done(Message(topic, payload), ents, <<>>, Deliver(subs[topic], payload), <<>>)
    /\ UNCHANGED <<localHostName, mqttState, subs>>

(* The owner gives an entity its id once (new Switch; setId; setName; ...,   *)
(* as the integrations do); every other operation may come at any time.     *)
Next ==
    \/ CreateSwitch
    \/ CreateSensor
    \/ \E e \in 1..Len(ents) :
         \/ \E newId \in Ids : ents[e].m_id = "" /\ SetId(e, newId)
         \/ \E newName \in Names : SetName(e, newName)
         \/ \E kv \in OverlayInputs : SetDiscoveryConfigOp(e, kv[1], kv[2])
         \/ \E newHaIcon \in Icons : SetHaIcon(e, newHaIcon)
         \/ \E attrs \in AttrInputs : SetAttributes(e, attrs)
         \/ \E state \in BOOLEAN : SwitchSetState(e, state)
         \/ \E state \in SensorStates : SensorSetState(e, state)
    \/ ConnectToHost
    \/ \E sessionPresent \in BOOLEAN : Connected(sessionPresent)
    \/ Disconnected
    \/ \E topic \in DOMAIN subs : \E payload \in Payloads : MessageReceived(topic, payload)

Spec == Init /\ [][Next]_vars

(* The same program with the history of topics kept, its inputs narrowed to *)
(* the ones a topic can depend on.                                          *)
InitTopics ==
    /\ localHostName \in HostNames
    /\ mqttState = "Disconnected"
    /\ subs = NoSubs
    /\ ents = <<>>
    /\ lastOp = Op("start", 0)
    /\ calls = <<>>
    /\ emitted = <<>>
    /\ ran = <<>>
    /\ lastDisc = <<>>
    /\ everDisc = <<>>
    /\ pendingAttrs = <<>>
    /\ usedTopics = [on |-> TRUE, of |-> <<>>]
    /\ missedState = <<>>
    /\ FlatpakIdle
    /\ InhibitorIdle
    /\ DockerIdle

NextTopics ==
    \/ CreateSwitch
    \/ CreateSensor
    \/ \E e \in 1..Len(ents) :
         \/ \E newId \in Ids : ents[e].m_id = "" /\ SetId(e, newId)
         \/ \E newName \in Names : SetName(e, newName)
         \/ \E newHaIcon \in Icons : SetHaIcon(e, newHaIcon)
         \/ \E attrs \in AttrInputs \ {EmptyMap} : SetAttributes(e, attrs)
         \/ \E state \in BOOLEAN : SwitchSetState(e, state)
         \/ \E state \in SensorStates : SensorSetState(e, state)
    \/ ConnectToHost
    \/ Connected(FALSE)
    \/ Disconnected

SpecTopics == InitTopics /\ [][NextTopics]_vars

(* A Notify or a Camera: its owner gives it an id and a name, the client    *)
(* connects and loses its connection, messages of any bytes arrive on the   *)
(* topic it subscribed to, and images are published.                        *)
NextRelay ==
    \/ CreateNotify
    \/ CreateCamera
    \/ \E e \in 1..Len(ents) :
         \/ \E newId \in Ids : ents[e].m_id = "" /\ SetId(e, newId)
         \/ \E newName \in Names : ents[e].m_name = "" /\ SetName(e, newName)
         \/ \E imageDataBase64 \in Images : \E now \in Clock :
               PublishImage(e, imageDataBase64, now)
    \/ ConnectToHost
    \/ \E sessionPresent \in BOOLEAN : Connected(sessionPresent)
    \/ Disconnected
    \/ \E topic \in DOMAIN subs : \E payload \in BytePayloads :
          MessageReceived(topic, payload)

SpecRelay == Init /\ [][NextRelay]_vars

(* The PowerInhibitor and its Switch, until the application quits. *)
NextInhibitor ==
    \/ \E others, hasOk, listOk \in BOOLEAN : NewPowerInhibitor(others, hasOk, listOk)
    \/ \E others, hasOk, listOk \in BOOLEAN :
          ~inhibitor.quit /\ OnInhibitionsChanged(others, hasOk, listOk)
    \/ \E topic \in DOMAIN subs : \E payload \in Payloads :
          \E replies \in [1..MaxHandlers -> AddReplies] :
              ~inhibitor.quit /\ InhibitCommand(topic, payload, replies)
    \/ \E reply \in VoidReplies : ~inhibitor.quit /\ AboutToQuit(reply)
    \/ ~inhibitor.quit /\ ConnectToHost
    \/ \E sessionPresent \in BOOLEAN : ~inhibitor.quit /\ Connected(sessionPresent)
    \/ ~inhibitor.quit /\ Disconnected

SpecInhibitor == Init /\ [][NextInhibitor]_vars

(* The DockerSwitch, its Switch and its listener thread.  The broker keeps  *)
(* no session, so the Switch has one handler, and the calls to the socket   *)
(* of one message end the same way.                                         *)
NextDocker ==
    \/ \E running, listOk, inspectOk \in BOOLEAN :
          NewDockerSwitch(running, listOk, inspectOk)
    \/ \E ev \in Events : EmitContainerEvent(ev)
    \/ \E listOk, inspectOk \in BOOLEAN : HandleEvent(listOk, inspectOk)
    \/ \E topic \in DOMAIN subs : \E payload \in Payloads :
          \E o \in Outcomes :
              DockerCommand(topic, payload, [i \in 1..MaxHandlers |-> o])
    \/ ConnectToHost
    \/ Connected(FALSE)
    \/ Disconnected

SpecDocker == Init /\ [][NextDocker]_vars

(* The steps of the listener thread. *)
ListenerRuns ==
    \/ \E ok \in BOOLEAN : ListenerConnect(ok)
    \/ ListenerCheck
    \/ ListenerWait
    \/ ListenerRead

(* The listener thread step by step, with the daemon writing to its socket  *)
(* and the main thread handling the events, until the DockerSwitch is       *)
(* destroyed: the destructor waits for the thread and handles nothing.      *)
NextListener ==
    \/ \E running \in BOOLEAN : NewDockerSwitch(running, TRUE, TRUE)
    \/ \E chunk \in Chunks : DataArrives(chunk)
    \/ SocketCloses
    \/ ListenerRuns
    \/ \E listOk, inspectOk \in BOOLEAN :
          ~docker.m_stop /\ HandleEvent(listOk, inspectOk)
    \/ StopListener

(* The thread, once started, is scheduled again and again; each of its      *)
(* steps ends by itself (the waits have a timeout of one second).           *)
SpecListener == Init /\ [][NextListener]_vars /\ WF_vars(ListenerRuns)

(* FlatpakHelper alone: the environment is fixed when the program starts   *)
(* (isFlatpak() caches its answer), and the helpers are called on any       *)
(* command.                                                                 *)
InitFlatpak ==
    /\ localHostName \in HostNames
    /\ mqttState = "Disconnected"
    /\ subs = NoSubs
    /\ ents = <<>>
    /\ lastOp = Op("start", 0)
    /\ calls = <<>>
    /\ emitted = <<>>
    /\ ran = <<>>
    /\ lastDisc = <<>>
    /\ everDisc = <<>>
    /\ pendingAttrs = <<>>
    /\ usedTopics = [on |-> FALSE, of |-> <<>>]
    /\ missedState = <<>>
    /\ \E b \in BOOLEAN : flatpak = [isFlatpak |-> b, call |-> NoCall]
    /\ InhibitorIdle
    /\ DockerIdle

NextFlatpak ==
    \/ \E command \in Commands : AdaptCommandOp(command)
    \/ \E command \in Commands : \E arguments \in ArgumentLists :
          ExecuteCommandOp(command, arguments)

SpecFlatpak == InitFlatpak /\ [][NextFlatpak]_vars

(* The same program with overlays on every kind of key. *)
NextOverlay ==
    \/ CreateSwitch
    \/ \E e \in 1..Len(ents) :
         \/ \E newId \in Ids : ents[e].m_id = "" /\ SetId(e, newId)
         \/ \E newName \in Names : SetName(e, newName)
         \/ \E kv \in OverlayEntries : SetDiscoveryConfigOp(e, kv[1], kv[2])
         \/ \E newHaIcon \in Icons : SetHaIcon(e, newHaIcon)
    \/ ConnectToHost
    \/ Connected(FALSE)

SpecOverlay == Init /\ [][NextOverlay]_vars

(* The same program with attribute values of every kind. *)
NextAttributes ==
    \/ CreateSwitch
    \/ CreateSensor
    \/ \E e \in 1..Len(ents) :
         \/ \E newId \in Ids : ents[e].m_id = "" /\ SetId(e, newId)
         \/ \E attrs \in AttributeMaps : SetAttributes(e, attrs)
    \/ ConnectToHost
    \/ Connected(FALSE)
    \/ Disconnected

SpecAttributes == Init /\ [][NextAttributes]_vars

-----------------------------------------------------------------------------
(* Properties *)

Existing == 1..Len(ents)

InitRunsOf(e) == {i \in 1..Len(ran) : ran[i].by = e}

AvailabilityKeys == {"availability_topic", "payload_available", "payload_not_available"}

(* C1: at every connected() event, the first and every later one, init()    *)
(* runs exactly once for every entity that exists, and each run of a Switch *)
(* or a Sensor publishes the entity's discovery document.                   *)
C1_InitOncePerConnection ==
    lastOp.op = "connected" =>
        \A e \in Existing :
            /\ Cardinality(InitRunsOf(e)) = 1
            /\ Cardinality(Sites(calls, e, "discovery")) = 1

(* C1 witness: a reconnection has run init() again for an entity that had   *)
(* registered before, and published its discovery document again.           *)
C1_Witness ==
    /\ lastOp.op = "connected"
    /\ \E i \in 1..Len(ran) :
          ran[i].rerun /\ Sites(calls, ran[i].by, "discovery") # {}

(* C2: while the client is not Connected, no entity operation makes a       *)
(* publish call on it.                                                      *)
C2_NoPublishCallWhenNotConnected ==
    mqttState # "Connected" =>
        \A i \in 1..Len(calls) : calls[i].call # "publish"

(* C3: a registration of an entity whose id, name, haType, icon and overlay *)
(* are as they were at its last registration publishes the same payload to  *)
(* the same discovery topic, whether it comes from sendRegistration() or    *)
(* from init() in a later connection.                                       *)
C3_RegistrationRepeats ==
    [][\A e \in Existing :
          (lastDisc[e] # NoDisc /\ Fields(ents'[e]) = Fields(ents[e])) =>
              \A i \in Sites(calls', e, "discovery") :
                  /\ calls'[i].topic = lastDisc[e].topic
                  /\ calls'[i].payload = lastDisc[e].payload]_vars

(* C3 witness: init() of a later connection has registered an entity again  *)
(* with nothing changed since its last registration.                        *)
C3_Witness ==
    /\ lastOp.op = "connected"
    /\ lastOp.repeat # {}

(* C4: a message on a Switch's command topic with payload "true" makes the  *)
(* Switch emit stateChangeRequested(true), "false" makes it emit            *)
(* stateChangeRequested(false), and any other payload makes it emit nothing;*)
(* nothing is published in answer.                                          *)
C4_SwitchDecodesCommand ==
    lastOp.op = "messageReceived" =>
        /\ calls = <<>>
        /\ lastOp.payload \in {"true", "false"} =>
              /\ emitted # <<>>
              /\ \A i \in 1..Len(emitted) :
                    /\ emitted[i].sig = "stateChangeRequested"
                    /\ emitted[i].arg = (lastOp.payload = "true")
                    /\ ents[emitted[i].by].kind = "Switch"
        /\ lastOp.payload \notin {"true", "false"} => emitted = <<>>

(* C4 witness: the payload "maybe" was delivered to a subscribed Switch.    *)
C4_Witness ==
    /\ lastOp.op = "messageReceived"
    /\ lastOp.payload = "maybe"
    /\ subs[lastOp.topic] # <<>>
    /\ emitted = <<>>

C6_SetAttributesDroppedWhenNotConnected ==
    (lastOp.op = "setAttributes" /\ mqttState # "Connected") => calls = <<>>

(* C6 witness: a non-empty attribute map was set while the client was       *)
(* connecting.                                                              *)
C6_Witness ==
    /\ lastOp.op = "setAttributes"
    /\ mqttState = "Connecting"
    /\ ents[lastOp.by].m_attributes # EmptyMap
    /\ calls = <<>>

C8_ReservedIdHasNoAvailability ==
    \A e \in Existing :
        (ents[e].m_id = "connected" /\ Sites(calls, e, "discovery") # {}) =>
            /\ \A i \in Sites(calls, e, "discovery") :
                  DOMAIN calls[i].doc \cap AvailabilityKeys
                      \subseteq DOMAIN ents[e].m_haConfig
            /\ Sites(calls, e, "availability") = {}

(* C8 witness: an entity with id "connected", a name and an icon has been   *)
(* registered.                                                              *)
C8_Witness ==
    \E e \in Existing :
        /\ ents[e].m_id = "connected"
        /\ ents[e].m_name # ""
        /\ ents[e].m_haIcon # ""
        /\ Sites(calls, e, "discovery") # {}

(* C9: no state publish of an entity comes before the first discovery       *)
(* publish of that entity.                                                  *)
C9_DiscoveryBeforeState ==
    \A e \in Existing :
        \A i \in Sites(calls, e, "state") :
            IF Sites(calls, e, "discovery") = {}
            THEN everDisc[e]
            ELSE \E j \in Sites(calls, e, "discovery") : j < i

(* C10: the topics and the unique_id follow the derivation formulas.        *)
C10_TopicDerivation ==
    \A i \in 1..Len(calls) :
        LET c    == calls[i]
            this == ents[c.by]
            base == Hostname \o "/" \o this.m_id
        IN  /\ c.site = "state" => c.topic = base
            /\ c.site = "attributes" => c.topic = base \o "/attributes"
            /\ c.site = "command" => c.topic = base \o "/set"
            /\ c.site = "discovery" =>
                  /\ c.topic = "homeassistant/" \o this.m_haType \o "/" \o Hostname
                                  \o "/" \o this.m_id \o "/config"
                  /\ c.doc["unique_id"] =
                        QStr("linux_ha_control_" \o Hostname \o "_" \o this.m_id)
                  /\ c.doc["json_attributes_topic"] = QStr(base \o "/attributes")
            /\ (Hostname = "desktop1" /\ this.m_id = "inhibit"
                  /\ this.m_haType = "switch") =>
                  /\ c.site = "state" => c.topic = "desktop1/inhibit"
                  /\ c.site = "command" => c.topic = "desktop1/inhibit/set"
                  /\ c.site = "discovery" =>
                        /\ c.topic = "homeassistant/switch/desktop1/inhibit/config"
                        /\ c.doc["unique_id"] = QStr("linux_ha_control_desktop1_inhibit")

(* C10 witness: init() of the Switch "inhibit" on host desktop1 has made    *)
(* its discovery, state and subscribe calls.                                *)
C10_Witness ==
    /\ Hostname = "desktop1"
    /\ lastOp.op = "connected"
    /\ \E e \in Existing :
          /\ ents[e].kind = "Switch"
          /\ ents[e].m_id = "inhibit"
          /\ Sites(calls, e, "discovery") # {}
          /\ Sites(calls, e, "state") # {}
          /\ \E i \in 1..Len(calls) : calls[i].call = "subscribe" /\ calls[i].by = e

(* C11: while an entity's id and haType stay as they are, every call it     *)
(* makes in any connection cycle names the same discovery, state,           *)
(* attributes and command topic, and every discovery document the same      *)
(* unique_id.                                                               *)
C11_TopicsStable ==
    \A e \in Existing :
        \A p, q \in usedTopics.of[e] : p[1] = q[1] => p[2] = q[2]

(* C11 witness: a Switch has made its calls on all four topics, in a        *)
(* connection that is not its first.                                        *)
C11_Witness ==
    /\ lastOp.op = "connected"
    /\ \E i \in 1..Len(ran) :
          /\ ran[i].rerun
          /\ {p[1] : p \in usedTopics.of[ran[i].by]} =
                {"discovery", "availability", "state", "attributes", "command",
                 "unique_id"}
          /\ \A p \in TopicsOf(calls, ran[i].by) : p \in usedTopics.of[ran[i].by]

(* C12: in the attributes JSON published by setAttributes while connected,  *)
(* every attribute whose value is a boolean is the string "true" or         *)
(* "false", never the literal true or false.                                *)
C12_BooleanAttributeIsString ==
    (lastOp.op = "setAttributes" /\ mqttState = "Connected") =>
        LET attrs == ents[lastOp.by].m_attributes IN
        /\ Len(calls) = 1
        /\ calls[1].site = "attributes"
        /\ \A k \in DOMAIN attrs :
              attrs[k][1] = "bool" =>
                  calls[1].doc[k] = QStr(IF attrs[k][2] THEN "true" ELSE "false")
        /\ attrs = [active |-> QBool(TRUE)] =>
              calls[1].payload = "{\"active\":\"true\"}"
        /\ attrs = [active |-> QBool(FALSE)] =>
              calls[1].payload = "{\"active\":\"false\"}"
        /\ attrs = [active |-> QBool(FALSE), level |-> QBool(FALSE)] =>
              calls[1].payload = "{\"active\":\"false\",\"level\":\"false\"}"

(* C12 witness: the map {active: false, level: 42} was set while connected. *)
C12_Witness ==
    /\ lastOp.op = "setAttributes"
    /\ mqttState = "Connected"
    /\ ents[lastOp.by].m_attributes = [active |-> QBool(FALSE), level |-> QInt(42)]
    /\ calls # <<>>
    /\ calls[1].payload = "{\"active\":\"false\",\"level\":42}"

ValueKinds == {"bool", "int", "QString", "QDateTime", "QVariantList", "QVariantMap",
               "QJsonArray", "QJsonObject", "UserType"}

(* C13: convertForHomeAssistant returns a value for a value of any kind,    *)
(* and returns a number, a string and a value of a custom type as it got    *)
(* it.                                                                      *)
C13_ConvertTotalAndPassThrough ==
    \A i \in 1..Len(calls) :
        calls[i].site = "attributes" =>
            LET attrs == ents[calls[i].by].m_attributes IN
            /\ DOMAIN calls[i].doc = DOMAIN attrs
            /\ \A k \in DOMAIN attrs :
                  /\ calls[i].doc[k][1] \in ValueKinds
                  /\ attrs[k][1] \in {"int", "QString", "UserType"} =>
                        calls[i].doc[k] = attrs[k]

(* C13 witness: attributes of each kind have been converted and published,  *)
(* here a list that holds a boolean.                                        *)
C13_Witness ==
    /\ lastOp.op = "setAttributes"
    /\ calls # <<>>
    /\ ents[lastOp.by].m_attributes = [active |-> QList(<<QBool(TRUE), QInt(42)>>)]
    /\ calls[1].payload = "{\"active\":[true,42]}"

(* C14: a command message, recognised or not, leaves the Switch's stored    *)
(* state as it was and makes the entity publish nothing; the stored state   *)
(* changes only in a setState call on that entity.                          *)
C14_CommandLeavesStateAlone ==
    [][/\ lastOp'.op = "messageReceived" => (ents' = ents /\ calls' = <<>>)
       /\ \A e \in Existing :
             ents'[e].m_state # ents[e].m_state =>
                 (lastOp'.op = "setState" /\ lastOp'.by = e)]_vars

(* C14 witness: a Switch that is off has relayed the command "true" and is  *)
(* still off.                                                               *)
C14_Witness ==
    /\ lastOp.op = "messageReceived"
    /\ lastOp.payload = "true"
    /\ \E i \in 1..Len(emitted) :
          /\ emitted[i].arg = TRUE
          /\ ents[emitted[i].by].m_state = FALSE

(* C15: sendRegistration() on an entity whose haType is empty does nothing: *)
(* setHaIcon on a Sensor that has not run init() makes no call at all, and  *)
(* leaves the overlay and the attributes as they were and the icon as set.  *)
C15_NoRegistrationWithoutHaType ==
    [][\A e \in Existing :
          (lastOp'.op = "setHaIcon" /\ lastOp'.by = e /\ ents[e].m_haType = "") =>
              /\ calls' = <<>>
              /\ ents'[e].m_haType = ""
              /\ ents'[e].m_haConfig = ents[e].m_haConfig
              /\ ents'[e].m_attributes = ents[e].m_attributes
              /\ ents'[e] = [ents[e] EXCEPT !.m_haIcon = ents'[e].m_haIcon]]_vars

(* C15 witness: setHaIcon("mdi:docker") on a connected client's Sensor that *)
(* has an id and no haType yet, and nothing was published.                  *)
C15_Witness ==
    /\ lastOp.op = "setHaIcon"
    /\ mqttState = "Connected"
    /\ ents[lastOp.by].kind = "Sensor"
    /\ ents[lastOp.by].m_haType = ""
    /\ ents[lastOp.by].m_id = "inhibit"
    /\ ents[lastOp.by].m_haIcon = "mdi:docker"
    /\ calls = <<>>

(* C17: every discovery publish of an entity whose id is not "connected"    *)
(* is followed at once, in the same call, by one publish of "on" to         *)
(* {hostname}/connected, not retained, QoS 0; there is one such ping per    *)
(* registration.                                                            *)
C17_PingFollowsRegistration ==
    \A e \in Existing :
        ents[e].m_id # "connected" =>
            /\ \A i \in Sites(calls, e, "discovery") :
                  /\ i + 1 <= Len(calls)
                  /\ calls[i + 1].call = "publish"
                  /\ calls[i + 1].by = e
                  /\ calls[i + 1].topic = Hostname \o "/connected"
                  /\ calls[i + 1].payload = "on"
                  /\ calls[i + 1].retain = FALSE
                  /\ calls[i + 1].qos = 0
            /\ Cardinality({i \in 1..Len(calls) :
                               /\ calls[i].call = "publish"
                               /\ calls[i].by = e
                               /\ calls[i].topic = Hostname \o "/connected"})
                  = Cardinality(Sites(calls, e, "discovery"))

(* C17 witness: setHaIcon has registered the Switch "inhibit" again, with   *)
(* the ping as the second and last call.                                    *)
C17_Witness ==
    /\ lastOp.op = "setHaIcon"
    /\ ents[lastOp.by].m_id = "inhibit"
    /\ Len(calls) = 2
    /\ calls[1].site = "discovery"
    /\ calls[2].topic = "desktop1/connected"

(* C18: every publish to a discovery, a state and an attributes topic is    *)
(* retained with QoS 0, and every availability ping of sendRegistration is  *)
(* not retained, with QoS 0.                                                *)
C18_RetainAndQos ==
    \A i \in 1..Len(calls) :
        calls[i].call = "publish" =>
            /\ calls[i].qos = 0
            /\ calls[i].site \in {"discovery", "state", "attributes"} =>
                  calls[i].retain = TRUE
            /\ calls[i].site = "availability" => calls[i].retain = FALSE

(* C18 witness: one init() of a Sensor has published on all four kinds of   *)
(* topic.                                                                   *)
C18_Witness ==
    \E e \in Existing :
        /\ Sites(calls, e, "discovery") # {}
        /\ Sites(calls, e, "availability") # {}
        /\ Sites(calls, e, "state") # {}
        /\ Sites(calls, e, "attributes") # {}

(* The keys sendRegistration() writes whatever the overlay holds. *)
GeneratedKeys ==
    {"name", "json_attributes_topic", "unique_id", "icon"} \cup AvailabilityKeys

(* C19: setDiscoveryConfig makes no publish call; the value it stored is in *)
(* the overlay, and it is in every discovery document published from then   *)
(* on, by init(), setHaIcon() or sendRegistration().                        *)
C19_OverlayTakesEffectAtNextRegistration ==
    /\ lastOp.op = "setDiscoveryConfig" =>
          /\ calls = <<>>
          /\ \E kv \in OverlayInputs :
                /\ kv[1] \in DOMAIN ents[lastOp.by].m_haConfig
                /\ ents[lastOp.by].m_haConfig[kv[1]] = kv[2]
    /\ \A e \in Existing :
          \A i \in Sites(calls, e, "discovery") :
              \A k \in DOMAIN ents[e].m_haConfig \ GeneratedKeys :
                  /\ k \in DOMAIN calls[i].doc
                  /\ calls[i].doc[k] = ents[e].m_haConfig[k]

(* C19 witness: the overlay of an entity that is registered, on a connected *)
(* client, has been changed, and nothing was published.                     *)
C19_Witness ==
    /\ lastOp.op = "setDiscoveryConfig"
    /\ mqttState = "Connected"
    /\ everDisc[lastOp.by]
    /\ lastDisc[lastOp.by] = NoDisc
    /\ calls = <<>>

(* C20: setHaIcon stores the icon and registers the entity again in the     *)
(* same call: for an entity with a haType and an id other than "connected", *)
(* a non-empty icon is the icon of the one discovery document that call     *)
(* publishes.                                                               *)
C20_SetHaIconRegistersWithNewIcon ==
    \A e \in Existing :
        (/\ lastOp.op = "setHaIcon" /\ lastOp.by = e
         /\ ents[e].m_haType # "" /\ ents[e].m_id # "connected"
         /\ ents[e].m_haIcon # "") =>
            /\ Cardinality(Sites(calls, e, "discovery")) = 1
            /\ \A i \in Sites(calls, e, "discovery") :
                  /\ "icon" \in DOMAIN calls[i].doc
                  /\ calls[i].doc["icon"] = QStr(ents[e].m_haIcon)

(* C20 witness: setHaIcon("mdi:docker") on the connected Switch "inhibit"   *)
(* has published a document with that icon.                                 *)
C20_Witness ==
    /\ lastOp.op = "setHaIcon"
    /\ mqttState = "Connected"
    /\ ents[lastOp.by].m_id = "inhibit"
    /\ ents[lastOp.by].m_haIcon = "mdi:docker"
    /\ \E i \in Sites(calls, lastOp.by, "discovery") :
          calls[i].doc["icon"] = QStr("mdi:docker")

(* C16 as claimed: in every discovery document name, json_attributes_topic  *)
(* and unique_id are the generated values whatever the overlay holds; the   *)
(* availability keys are {hostname}/connected, "on" and "off" when the id   *)
(* is not "connected"; device is the overlay's when it has one and          *)
(* otherwise identifiers = "linux_ha_bridge_" + hostname; and every other   *)
(* key of the overlay is in the document with the overlay's value.          *)
C16_DocumentFromOverlay ==
    \A e \in Existing :
        \A i \in Sites(calls, e, "discovery") :
            LET doc == calls[i].doc
                ov  == ents[e].m_haConfig
            IN  /\ doc["name"] = QStr(ents[e].m_name)
                /\ doc["json_attributes_topic"] =
                      QStr(Hostname \o "/" \o ents[e].m_id \o "/attributes")
                /\ doc["unique_id"] =
                      QStr("linux_ha_control_" \o Hostname \o "_" \o ents[e].m_id)
                /\ ents[e].m_id # "connected" =>
                      /\ doc["availability_topic"] = QStr(Hostname \o "/connected")
                      /\ doc["payload_available"] = QStr("on")
                      /\ doc["payload_not_available"] = QStr("off")
                /\ doc["device"] =
                      (IF "device" \in DOMAIN ov
                       THEN ov["device"]
                       ELSE QMap([identifiers |-> QStr("linux_ha_bridge_" \o Hostname)]))
                /\ \A k \in DOMAIN ov \ ({"name", "json_attributes_topic", "unique_id",
                                           "device"} \cup AvailabilityKeys) :
                      k \in DOMAIN doc /\ doc[k] = ov[k]

(* C16 as amended: the same, except that an icon in the overlay is kept     *)
(* only when the entity has no icon of its own or its id is "connected";    *)
(* otherwise the document's icon is the entity's.                           *)
C16_DocumentFromOverlayAndIcon ==
    \A e \in Existing :
        \A i \in Sites(calls, e, "discovery") :
            LET doc == calls[i].doc
                ov  == ents[e].m_haConfig
                own == ents[e].m_id # "connected" /\ ents[e].m_haIcon # ""
            IN  /\ doc["name"] = QStr(ents[e].m_name)
                /\ doc["json_attributes_topic"] =
                      QStr(Hostname \o "/" \o ents[e].m_id \o "/attributes")
                /\ doc["unique_id"] =
                      QStr("linux_ha_control_" \o Hostname \o "_" \o ents[e].m_id)
                /\ ents[e].m_id # "connected" =>
                      /\ doc["availability_topic"] = QStr(Hostname \o "/connected")
                      /\ doc["payload_available"] = QStr("on")
                      /\ doc["payload_not_available"] = QStr("off")
                /\ doc["device"] =
                      (IF "device" \in DOMAIN ov
                       THEN ov["device"]
                       ELSE QMap([identifiers |-> QStr("linux_ha_bridge_" \o Hostname)]))
                /\ own => doc["icon"] = QStr(ents[e].m_haIcon)
                /\ \A k \in DOMAIN ov \ ({"name", "json_attributes_topic", "unique_id",
                                           "device"} \cup AvailabilityKeys
                                           \cup (IF own THEN {"icon"} ELSE {})) :
                      k \in DOMAIN doc /\ doc[k] = ov[k]

(* C16 witness: an entity whose overlay holds name, unique_id, device, icon *)
(* and unit_of_measurement has been registered and the overlay's icon and   *)
(* unit are in the document.                                                *)
C16_Witness ==
    \E e \in Existing :
        /\ {"name", "unique_id", "json_attributes_topic", "availability_topic",
             "device", "icon", "unit_of_measurement"} \subseteq DOMAIN ents[e].m_haConfig
        /\ ents[e].m_id = "inhibit"
        /\ ents[e].m_haIcon = ""
        /\ \E i \in Sites(calls, e, "discovery") :
              /\ calls[i].doc["icon"] = QStr("mdi:console")
              /\ calls[i].doc["unit_of_measurement"] = QStr("%")
              /\ calls[i].doc["name"] = QStr(ents[e].m_name)

StatePayload(this) ==
    IF this.kind = "Switch"
    THEN (IF this.m_state THEN "true" ELSE "false")
    ELSE this.m_state

(* C21: the init() run of every connection publishes the entity's state     *)
(* once, and it is the value of the most recent setState call, or the       *)
(* default when there was none: the stored state as it was before the       *)
(* connection, whether or not it had been published.                        *)
C21_StateRepublishedOnConnect ==
    [][lastOp'.op = "connected" =>
          \A e \in Existing :
              /\ Cardinality(Sites(calls', e, "state")) = 1
              /\ \A i \in Sites(calls', e, "state") :
                    calls'[i].payload = StatePayload(ents[e])
              /\ ents'[e].m_state = ents[e].m_state]_vars

(* C21 witness: a Switch was set to on while the client was not connected,  *)
(* which published nothing, and the init() of the next connection has       *)
(* published "true".                                                        *)
C21_Witness ==
    /\ lastOp.op = "connected"
    /\ \E i \in 1..Len(ran) :
          /\ ran[i].missed
          /\ ents[ran[i].by].kind = "Switch"
          /\ \E j \in Sites(calls, ran[i].by, "state") : calls[j].payload = "true"

(* C22: the state a Switch publishes is "on" for true and "off" for false.  *)
C22_SwitchStateIsOnOff ==
    \A e \in Existing :
        ents[e].kind = "Switch" =>
            \A i \in Sites(calls, e, "state") :
                calls[i].payload = (IF ents[e].m_state THEN "on" ELSE "off")

(* The kinds of call the entity e made in the last action, in call order. *)
RECURSIVE KindsOf(_, _)
KindsOf(cs, e) ==
    IF cs = <<>>
    THEN <<>>
    ELSE (IF Head(cs).by = e THEN <<Head(cs).site>> ELSE <<>>) \o KindsOf(Tail(cs), e)

(* C28: an init() run of a Switch makes its calls in the order discovery    *)
(* publish, availability publish, state publish, subscribe to the command   *)
(* topic; one of a Sensor in the order discovery, availability, state,      *)
(* attributes.  (An entity whose id is "connected" has no availability      *)
(* publish.)                                                                *)
C28_InitCallOrder ==
    lastOp.op = "connected" =>
        \A e \in Existing :
            LET ping == IF ents[e].m_id # "connected" THEN <<"availability">> ELSE <<>>
            IN  KindsOf(calls, e) =
                    <<"discovery">> \o ping \o <<"state">>
                    \o (IF ents[e].kind = "Switch" THEN <<"command">> ELSE <<"attributes">>)

(* C28 witness: a Switch with the id "inhibit" has run init() and made its  *)
(* four calls.                                                              *)
C28_Witness ==
    /\ lastOp.op = "connected"
    /\ \E e \in Existing :
          /\ ents[e].kind = "Switch"
          /\ ents[e].m_id = "inhibit"
          /\ Len(calls) = 4
          /\ calls[4].call = "subscribe"
          /\ calls[4].by = e

(* C29: every discovery document published for a Switch on a connected      *)
(* client, by init() or by setHaIcon(), holds state_topic = {hostname}/{id}, command_topic =        *)
(* {hostname}/{id}/set, payload_on and payload_off.                         *)
C29_SwitchDocumentHasTopics ==
    \A e \in Existing :
        (ents[e].kind = "Switch" /\ mqttState = "Connected") =>
            \A i \in Sites(calls, e, "discovery") :
                /\ {"state_topic", "command_topic", "payload_on", "payload_off"}
                      \subseteq DOMAIN calls[i].doc
                /\ calls[i].doc["state_topic"] = QStr(Hostname \o "/" \o ents[e].m_id)
                /\ calls[i].doc["command_topic"] =
                      QStr(Hostname \o "/" \o ents[e].m_id \o "/set")

(* C30: a Switch that has published a discovery document publishes as its  *)
(* state only the values that document declares: payload_on for true and    *)
(* payload_off for false.                                                   *)
C30_StateIsDeclaredPayload ==
    \A e \in Existing :
        (ents[e].kind = "Switch" /\ everDisc[e]) =>
            \A i \in Sites(calls, e, "state") :
                /\ {"payload_on", "payload_off"} \subseteq DOMAIN ents[e].m_haConfig
                /\ calls[i].payload =
                      (IF ents[e].m_state
                       THEN ents[e].m_haConfig["payload_on"][2]
                       ELSE ents[e].m_haConfig["payload_off"][2])

(* C26: in Flatpak, adaptCommand returns "flatpak-spawn --host " followed   *)
(* by the command, and nothing more, unless the command starts with         *)
(* "flatpak-spawn", which is returned as it is; outside Flatpak every       *)
(* command is returned as it is.                                            *)
C26_AdaptCommandPrefixes ==
    flatpak.call.op = "adaptCommand" =>
        LET command == flatpak.call.command IN
        /\ flatpak.call.result =
              (IF flatpak.isFlatpak /\ ~StartsWith(command, FlatpakSpawn)
               THEN "flatpak-spawn --host " \o Str(command)
               ELSE Str(command))
        /\ (flatpak.isFlatpak /\ Str(command) = "systemctl --user status") =>
              flatpak.call.result = "flatpak-spawn --host systemctl --user status"

(* C27: in Flatpak, executeCommand of a command that does not start with    *)
(* "flatpak-spawn" runs the program flatpak-spawn with the arguments        *)
(* "--host", the command, and then the arguments it was given, in their     *)
(* order.                                                                   *)
C27_ExecuteCommandArguments ==
    (/\ flatpak.call.op = "executeCommand"
     /\ flatpak.isFlatpak
     /\ ~StartsWith(flatpak.call.command, FlatpakSpawn)) =>
        /\ flatpak.call.program = "flatpak-spawn"
        /\ flatpak.call.args =
              <<"--host", Str(flatpak.call.command)>> \o flatpak.call.arguments

(* C25: the PowerInhibitor holds at most one inhibition of its own: the     *)
(* successful AddInhibition calls less the successful ReleaseInhibition     *)
(* calls are 0 or 1, and no AddInhibition is issued while one is held.      *)
C25_AtMostOneOwnInhibition ==
    /\ inhibitor.own \in {0, 1}
    /\ \A i \in 1..Len(inhibitor.log) :
          inhibitor.log[i].call = "AddInhibition" => ~inhibitor.log[i].held

(* C25 witness: one "true" command reached two handlers of the Switch; the  *)
(* first switch-on added the inhibition and the second issued no call.      *)
C25_Witness ==
    /\ lastOp.op = "messageReceived"
    /\ lastOp.payload = "true"
    /\ Len(emitted) = 2
    /\ Len(inhibitor.log) = 1
    /\ inhibitor.log[1].call = "AddInhibition"
    /\ inhibitor.log[1].ok
    /\ inhibitor.own = 1

(* C23: the events handleEvent has run for, followed by the events still    *)
(* queued, are the events the listener emitted, in the order it emitted     *)
(* them; and handleEvent ran on the main thread for each.                   *)
C23_EventsHandledInOrder ==
    /\ [i \in 1..Len(docker.handled) |-> docker.handled[i].event] \o docker.posted
           = docker.sent
    /\ \A i \in 1..Len(docker.handled) : docker.handled[i].thread = "main"

(* C23 witness: the worker emitted a second, different event before the     *)
(* main thread handled the first; handleEvent has just run for the first,   *)
(* the second is queued behind it.                                          *)
C23_Witness ==
    /\ lastOp.op = "handleEvent"
    /\ Len(docker.handled) = 1
    /\ Len(docker.posted) = 1
    /\ docker.handled[1].event = docker.sent[1]
    /\ docker.posted[1] # docker.sent[1]

(* C24: an updateSwitch of the constructed DockerSwitch one of whose        *)
(* queries fails leaves the Switch as it was and publishes nothing.         *)
C24_FailedQuerySkipsUpdate ==
    [][(/\ docker.made
        /\ Len(docker'.query) = 1
        /\ ~(docker'.query[1].list /\ docker'.query[1].inspect))
       => (ents' = ents /\ calls' = <<>>)]_vars

(* C35: m_ownCookie is non-zero exactly when an inhibition of this program  *)
(* is outstanding; a handler that ends with a failed AddInhibition leaves   *)
(* the cookie 0, one that ends with a failed ReleaseInhibition leaves the   *)
(* cookie it tried to release.                                              *)
C35_CookieTracksInhibition ==
    /\ (inhibitor.m_ownCookie # 0) <=> (inhibitor.own > 0)
    /\ inhibitor.log # <<>> =>
          LET last == inhibitor.log[Len(inhibitor.log)] IN
          /\ (last.call = "AddInhibition" /\ ~last.ok) => inhibitor.m_ownCookie = 0
          /\ (last.call = "ReleaseInhibition" /\ ~last.ok)
                 => inhibitor.m_ownCookie = last.arg

(* C35 witness: a switch-off command whose ReleaseInhibition failed; the    *)
(* cookie is still held.                                                    *)
C35_Witness ==
    /\ lastOp.op = "messageReceived"
    /\ lastOp.payload = "false"
    /\ Len(inhibitor.log) = 1
    /\ inhibitor.log[1].call = "ReleaseInhibition"
    /\ ~inhibitor.log[1].ok
    /\ inhibitor.m_ownCookie = inhibitor.log[1].arg
    /\ inhibitor.m_ownCookie # 0

(* C36: the state of the inhibit Switch changes only in updateStateFromDBus *)
(* after an InhibitionsChanged signal: to the result of HasInhibition when  *)
(* the query succeeds, not at all when it fails; a toggle command changes   *)
(* nothing of the Switch and publishes nothing.                             *)
C36_StateWrittenByUpdateOnly ==
    [][inhibitor.made =>
         /\ lastOp'.op = "onInhibitionsChanged" =>
               ents'[1].m_state = IF inhibitor'.log[1].ok
                                  THEN inhibitor'.log[1].value
                                  ELSE ents[1].m_state
         /\ lastOp'.op = "messageReceived" => ents' = ents /\ calls' = <<>>
         /\ ents'[1].m_state # ents[1].m_state => lastOp'.op = "onInhibitionsChanged"]_vars

(* C36 witness: an InhibitionsChanged signal whose HasInhibition query      *)
(* failed, handled while the Switch is on: the Switch is still on.          *)
C36_Witness ==
    /\ lastOp.op = "onInhibitionsChanged"
    /\ inhibitor.log[1].call = "HasInhibition"
    /\ ~inhibitor.log[1].ok
    /\ ents[1].m_state

(* C37: at aboutToQuit ReleaseInhibition is issued exactly when a cookie is *)
(* held, for that cookie, and after a successful release the cookie is 0    *)
(* and no inhibition of this program is outstanding.                        *)
C37_QuitReleasesOwnInhibition ==
    inhibitor.quit =>
        IF inhibitor.log = <<>>
        THEN inhibitor.m_ownCookie = 0 /\ inhibitor.own = 0
        ELSE /\ Len(inhibitor.log) = 1
             /\ inhibitor.log[1].call = "ReleaseInhibition"
             /\ inhibitor.log[1].held
             /\ inhibitor.log[1].arg # 0
             /\ inhibitor.log[1].ok => inhibitor.m_ownCookie = 0 /\ inhibitor.own = 0
             /\ ~inhibitor.log[1].ok => inhibitor.m_ownCookie = inhibitor.log[1].arg

(* C37 witness: the application quit while holding an inhibition and the    *)
(* release succeeded.                                                       *)
C37_Witness ==
    /\ inhibitor.quit
    /\ lastOp.op = "aboutToQuit"
    /\ Len(inhibitor.log) = 1
    /\ inhibitor.log[1].call = "ReleaseInhibition"
    /\ inhibitor.log[1].ok
    /\ inhibitor.m_ownCookie = 0

(* C31: a message delivered to a Notify or a Camera makes every handler of  *)
(* the subscription emit the entity's notification, whatever the payload,   *)
(* the empty one included; the notification carries the payload's text (for *)
(* a payload that is UTF-8 text, the text whose encoding is the payload);   *)
(* the entity calls nothing on the transport; and the topic it subscribed   *)
(* to in init() is {hostname}/{id}/notifications or {hostname}/{id}/command.*)
C31_MessageRelayedVerbatim ==
    /\ lastOp.op = "messageReceived" =>
          /\ emitted # <<>>
          /\ Len(emitted) = Len(subs[lastOp.topic])
          /\ calls = <<>>
          /\ \A i \in 1..Len(emitted) :
                /\ emitted[i].sig = IF ents[emitted[i].by].kind = "Notify"
                                    THEN "notificationReceived"
                                    ELSE "commandReceived"
                /\ IsText(lastOp.payload) => ToUtf8(emitted[i].arg) = lastOp.payload
    /\ lastOp.op = "connected" =>
          \A i \in 1..Len(calls) :
             calls[i].call = "subscribe" =>
                calls[i].topic = Hostname \o "/" \o ents[calls[i].by].m_id
                                   \o (IF ents[calls[i].by].kind = "Notify"
                                       THEN "/notifications"
                                       ELSE "/command")

(* C31 witness: the two bytes of U+00E9 arrived on the topic of a Notify    *)
(* and were relayed as that one character.                                  *)
C31_Witness ==
    /\ lastOp.op = "messageReceived"
    /\ lastOp.payload = <<195, 169>>
    /\ Len(emitted) = 1
    /\ ents[emitted[1].by].kind = "Notify"
    /\ emitted[1].sig = "notificationReceived"
    /\ emitted[1].arg = <<233>>

(* C32: publishImage on a client that is not Connected calls nothing and    *)
(* leaves the Camera as it was; on a Connected client it publishes the      *)
(* image retained on {hostname}/{id}, then an attributes document whose     *)
(* size_bytes is the length of the image just published.                    *)
C32_PublishImageGuarded ==
    [][lastOp'.op = "publishImage" =>
         IF mqttState # "Connected"
         THEN calls' = <<>> /\ ents' = ents
         ELSE /\ Len(calls') = 2
              /\ calls'[1].call = "publish"
              /\ calls'[1].topic = Hostname \o "/" \o ents[lastOp'.by].m_id
              /\ calls'[1].retain
              /\ calls'[2].call = "publish"
              /\ calls'[2].site = "attributes"
              /\ calls'[2].doc["size_bytes"] = QInt(Len(calls'[1].payload))
              /\ ents'[lastOp'.by].m_attributes["size_bytes"]
                    = QInt(Len(calls'[1].payload))]_vars

(* C32 witness: publishImage on a client that lost its connection, by a     *)
(* Camera that holds the attributes of an earlier image of two characters.  *)
C32_Witness ==
    /\ lastOp.op = "publishImage"
    /\ mqttState = "Disconnected"
    /\ calls = <<>>
    /\ "size_bytes" \in DOMAIN ents[lastOp.by].m_attributes
    /\ ents[lastOp.by].m_attributes["size_bytes"] = QInt(2)

(* The lines of events of named containers among `lines`. *)
EventLines(lines) == SelectSeq(lines, LAMBDA l : l # NoEvent)

(* The listener keeps running: it is not told to stop, its socket is        *)
(* connected and run() has not returned.                                    *)
ListenerKeepsRunning ==
    /\ ~docker.m_stop
    /\ docker.socket = "ConnectedState"
    /\ docker.pc # "done"

(* C33: every event line of a named container that the socket has received *)
(* is eventually emitted as a containerEvent, unless the listener stops     *)
(* running.                                                                 *)
C33_EveryEventLineEmitted ==
    \A n \in 1..MaxEvents :
        (Len(docker.sent) + Len(EventLines(docker.buffer \o docker.arrived)) >= n)
            ~> (Len(docker.sent) >= n \/ ~ListenerKeepsRunning)

(* C34: once stop() is called, run() returns. *)
C34_StopEndsListener == docker.m_stop ~> docker.pc = "done"

(* C34 witness: run() returned on a connected socket that never received a  *)
(* line, after stop() was called.                                           *)
C34_Witness ==
    /\ docker.m_stop
    /\ docker.pc = "done"
    /\ docker.socket = "ConnectedState"
    /\ docker.received = 0

====
